---- MODULE Spec2Model ----
(***************************************************************************)
(* Replay-context pipeline of langfuse-gosdk.                              *)
(*                                                                         *)
(*   - the ContextBuilder / ReplayContext of the replay chat example       *)
(*     (Go slices and maps are modelled as references into a heap, so      *)
(*     that sharing between the builder and its snapshots is visible);     *)
(*   - the chat loop of that example's main;                               *)
(*   - the fetch example's main: first-generation scan and normalization   *)
(*     of the observation's input and output.                              *)
(***************************************************************************)
EXTENDS Integers, Sequences, FiniteSets, TLC

VARIABLES
    phase,      \* which program is running and where it is ("api", "codec:*", "chat:*", "fetch:*")
    b,          \* the ContextBuilder's fields
    arrays,     \* heap: backing arrays of slices, array id = index
    maps,       \* heap: Go maps, map id = index
    snaps,      \* the ReplayContext values returned by Build, in order
    caller,     \* the builder's caller: lists and maps it passed to AddTurn and still holds, call counts
    cx,         \* codec: the context the codec is applied to (a loaded value)
    doc,        \* codec: the JSON document produced by ToJSON
    cx2,        \* codec: the context decoded from doc
    out,        \* codec: message lists produced by ToOpenAIMessages
    loop,       \* chat loop: locals of main
    fetch       \* fetch program: locals of main

vars == <<phase, b, arrays, maps, snaps, caller, cx, doc, cx2, out, loop, fetch>>

bvars == <<b, arrays, maps, snaps, caller>>
cvars == <<cx, doc, cx2, out>>

Nothing == [none |-> TRUE]

NoOut == [direct |-> <<>>, decoded |-> <<>>]

\* State of the programs that are not running.
IdleBuilder == b = Nothing /\ arrays = <<>> /\ maps = <<>> /\ snaps = <<>> /\ caller = Nothing
IdleCodec == cx = Nothing /\ doc = Nothing /\ cx2 = Nothing /\ out = NoOut
IdleLoop == loop = Nothing
IdleFetch == fetch = Nothing

\* ------------------------------------------------------------------------
\* Bounds
\* ------------------------------------------------------------------------
MaxHistory == 2      \* turns a codec input holds
MaxTurns == 4        \* turns the API driver adds to a builder
MaxSnaps == 1        \* snapshots kept
MaxClock == 1        \* time.Now() reads a wall clock value in 0..MaxClock
MaxRound == 2        \* round numbers a caller passes to AddTurn
MaxSetterCalls == 1  \* configuration setter calls of the API driver
MaxWrites == 1       \* writes the caller makes through references it holds
MaxObs == 3          \* observations of a fetched trace
MaxSeq == 3          \* AddTurn calls of the caller that chooses the rounds
MaxSets == 3         \* setter calls of the caller that configures repeatedly
MaxAppends == 3      \* turns added between snapshots
MaxBuilds == 2       \* snapshots taken of one builder
MaxPairTurns == 2    \* turns of the contexts projected in pairs
MaxRaceBase == 3     \* turns the builder holds before two goroutines add to it

Times == 0..MaxClock

\* ------------------------------------------------------------------------
\* Go slices and maps
\* ------------------------------------------------------------------------
\* A slice header.  arr = 0: no backing array.
NilSlice == [arr |-> 0, len |-> 0, cap |-> 0, isnil |-> TRUE]
\* make([]T, 0)
EmptySlice == [arr |-> 0, len |-> 0, cap |-> 0, isnil |-> FALSE]
NilMap == 0

\* The elements a slice header denotes in a heap.
Elems(arrs, s) == IF s.len = 0 THEN <<>> ELSE SubSeq(arrs[s.arr].cells, 1, s.len)

\* A loaded slice / map: what a reader sees through the reference.
LoadedNil == [isnil |-> TRUE, elems |-> <<>>]
Loaded(es) == [isnil |-> FALSE, elems |-> es]

NoKeys == [k \in {} |-> k]
LoadedNilMap == [isnil |-> TRUE, kv |-> NoKeys]
LoadedMap(f) == [isnil |-> FALSE, kv |-> f]

\* Values held in a map[string]interface{}: a Go string, int or float64.
AnyStr(s) == [ty |-> "string", v |-> s]
AnyInt(n) == [ty |-> "int", v |-> n]
AnyFloat(n) == [ty |-> "float64", v |-> n]
\* A nested JSON object (e.g. a tool's parameter schema), kept opaque.
AnyObj(o) == [ty |-> "object", v |-> o]

\* ------------------------------------------------------------------------
\* ReplayContext.ToOpenAIMessages (on a context as read through its slices)
\* ------------------------------------------------------------------------
\* openai.ChatCompletionMessage, the fields this program sets or compares.
Msg(role, content, id) == [Role |-> role, Content |-> content, ToolCallID |-> id]

RECURSIVE ToolMessages(_)
ToolMessages(tcs) ==
    IF tcs = <<>> THEN <<>>
    ELSE <<Msg("tool", Head(tcs).Result, Head(tcs).ToolID)>> \o ToolMessages(Tail(tcs))

\* Mutant: the tool results are left out of the projection.
TurnMessages_NoTools(turn) ==
    <<Msg("user", turn.UserInput.Content, ""),
      Msg("assistant", turn.LLMResponse.Content, "")>>

TurnMessages(turn) ==
    <<Msg("user", turn.UserInput.Content, ""),
      Msg("assistant", turn.LLMResponse.Content, "")>>
    \o ToolMessages(turn.ToolCalls.elems)

RECURSIVE HistoryMessages(_)
HistoryMessages(turns) ==
    IF turns = <<>> THEN <<>>
    ELSE TurnMessages(Head(turns)) \o HistoryMessages(Tail(turns))

\* Mutant: the system message takes the role stored with the system prompt.
ToOpenAIMessages_PromptRole(r) ==
    <<Msg(r.SystemPrompt.Role, r.SystemPrompt.Content, "")>>
    \o HistoryMessages(r.ConversationHistory.elems)

\* Mutant: the system message is left out.
ToOpenAIMessages_NoSystem(r) == HistoryMessages(r.ConversationHistory.elems)

ToOpenAIMessages(r) ==
    <<Msg("system", r.SystemPrompt.Content, "")>>
    \o HistoryMessages(r.ConversationHistory.elems)

\* Messages compared on role, content and tool_call_id.
SameMessage(m1, m2) ==
    m1.Role = m2.Role /\ m1.Content = m2.Content /\ m1.ToolCallID = m2.ToolCallID

SameMessages(s1, s2) ==
    Len(s1) = Len(s2) /\ \A i \in 1..Len(s1) : SameMessage(s1[i], s2[i])

\* ------------------------------------------------------------------------
\* encoding/json as ReplayContext.ToJSON uses it
\* ------------------------------------------------------------------------
JNull == [jnull |-> TRUE]
JArr(s) == [jarr |-> s]

\* A key with omitempty is left out when its value is the zero value / empty.
OmitEmpty(key, empty, val) == IF empty THEN NoKeys ELSE key :> val

\* interface{} values: a Go int and a float64 both become a JSON number.
AnyJSON(a) == IF a.ty \in {"int", "float64"} THEN [jty |-> "number", v |-> a.v]
              ELSE [jty |-> a.ty, v |-> a.v]
\* Decoding into interface{} gives a string, a float64 or a map.
AnyFromJSON(j) == IF j.jty = "number" THEN AnyFloat(j.v) ELSE [ty |-> j.jty, v |-> j.v]

\* map[string]interface{} without omitempty: nil encodes as null.
MapJSON(m) == IF m.isnil THEN JNull ELSE [k \in DOMAIN m.kv |-> AnyJSON(m.kv[k])]
MapFromJSON(j) == IF j = JNull THEN LoadedNilMap
                  ELSE LoadedMap([k \in DOMAIN j |-> AnyFromJSON(j[k])])

\* json.Unmarshal leaves a field at its zero value when the key is absent.
Get(j, key, zero) == IF key \in DOMAIN j THEN j[key] ELSE zero
GetMap(j, key) == IF key \in DOMAIN j THEN MapFromJSON(j[key]) ELSE LoadedNilMap
MapEmpty(m) == DOMAIN m.kv = {}

RECURSIVE SeqMap(_, _)
SeqMap(F(_), s) == IF s = <<>> THEN <<>> ELSE <<F(Head(s))>> \o SeqMap(F, Tail(s))

\* time.Time: the monotonic clock reading is not part of the RFC 3339 text.
TimeJSON(t) == t.wall
TimeFromJSON(j) == [wall |-> j, mono |-> FALSE]

\* Mutant: the ToolID field is not exported to the document.
ToolCallJSON_NoToolID(tc) ==
    [tool_name |-> tc.ToolName,
     arguments |-> MapJSON(tc.Arguments), result |-> tc.Result,
     start_time |-> tc.StartTime, end_time |-> tc.EndTime,
     duration_ms |-> tc.DurationMs, success |-> tc.Success]
    @@ OmitEmpty("error", tc.Error = "", tc.Error)

ToolCallJSON(tc) ==
    [tool_name |-> tc.ToolName, tool_id |-> tc.ToolID,
     arguments |-> MapJSON(tc.Arguments), result |-> tc.Result,
     start_time |-> tc.StartTime, end_time |-> tc.EndTime,
     duration_ms |-> tc.DurationMs, success |-> tc.Success]
    @@ OmitEmpty("error", tc.Error = "", tc.Error)

ToolCallFromJSON(j) ==
    [ToolName |-> Get(j, "tool_name", ""), ToolID |-> Get(j, "tool_id", ""),
     Arguments |-> GetMap(j, "arguments"), Result |-> Get(j, "result", ""),
     StartTime |-> Get(j, "start_time", 0), EndTime |-> Get(j, "end_time", 0),
     DurationMs |-> Get(j, "duration_ms", 0), Success |-> Get(j, "success", FALSE),
     Error |-> Get(j, "error", "")]

LLMResponseJSON(l) ==
    [role |-> l.Role, content |-> l.Content, tool_calls |-> l.ToolCalls]
    @@ OmitEmpty("reasoning", l.Reasoning = "", l.Reasoning)
    @@ OmitEmpty("finish_reason", l.FinishReason = "", l.FinishReason)

LLMResponseFromJSON(j) ==
    [Role |-> Get(j, "role", ""), Content |-> Get(j, "content", ""),
     ToolCalls |-> Get(j, "tool_calls", FALSE),
     Reasoning |-> Get(j, "reasoning", ""),
     FinishReason |-> Get(j, "finish_reason", "")]

UserMessageJSON(u) == [role |-> u.Role, content |-> u.Content]
UserMessageFromJSON(j) == [Role |-> Get(j, "role", ""), Content |-> Get(j, "content", "")]

TokenUsageJSON(u) ==
    [prompt_tokens |-> u.PromptTokens, completion_tokens |-> u.CompletionTokens,
     total_tokens |-> u.TotalTokens]
TokenUsageFromJSON(j) ==
    [PromptTokens |-> Get(j, "prompt_tokens", 0),
     CompletionTokens |-> Get(j, "completion_tokens", 0),
     TotalTokens |-> Get(j, "total_tokens", 0)]

\* A slice: nil encodes as null, otherwise an array; null and an absent key
\* decode to the nil slice.
SliceJSON(F(_), s) == IF s.isnil THEN JNull ELSE JArr(SeqMap(F, s.elems))
SliceFromJSON(F(_), j) == IF j = JNull THEN LoadedNil ELSE Loaded(SeqMap(F, j.jarr))
GetSlice(F(_), j, key) == IF key \in DOMAIN j THEN SliceFromJSON(F, j[key]) ELSE LoadedNil

TurnJSON(t) ==
    [round |-> t.Round, timestamp |-> t.Timestamp, turn_id |-> t.TurnID,
     user_input |-> UserMessageJSON(t.UserInput),
     llm_response |-> LLMResponseJSON(t.LLMResponse),
     token_usage |-> TokenUsageJSON(t.TokenUsage)]
    @@ OmitEmpty("tool_calls", t.ToolCalls.elems = <<>>,
                 SliceJSON(ToolCallJSON, t.ToolCalls))

TurnFromJSON(j) ==
    [Round |-> Get(j, "round", 0), Timestamp |-> Get(j, "timestamp", 0),
     TurnID |-> Get(j, "turn_id", ""),
     UserInput |-> UserMessageFromJSON(Get(j, "user_input", NoKeys)),
     LLMResponse |-> LLMResponseFromJSON(Get(j, "llm_response", NoKeys)),
     ToolCalls |-> GetSlice(ToolCallFromJSON, j, "tool_calls"),
     TokenUsage |-> TokenUsageFromJSON(Get(j, "token_usage", NoKeys))]

ToolDefJSON(td) == [type |-> td.Type, function |-> MapJSON(td.Function)]
ToolDefFromJSON(j) == [Type |-> Get(j, "type", ""), Function |-> GetMap(j, "function")]

ModelConfigJSON(mc) ==
    [model |-> mc.Model, base_url |-> mc.BaseURL, temperature |-> mc.Temperature,
     max_tokens |-> mc.MaxTokens, top_p |-> mc.TopP,
     frequency_penalty |-> mc.FrequencyPenalty, presence_penalty |-> mc.PresencePenalty]
    @@ OmitEmpty("extra_params", MapEmpty(mc.ExtraParams), MapJSON(mc.ExtraParams))

ModelConfigFromJSON(j) ==
    [Model |-> Get(j, "model", ""), BaseURL |-> Get(j, "base_url", ""),
     Temperature |-> Get(j, "temperature", 0), MaxTokens |-> Get(j, "max_tokens", 0),
     TopP |-> Get(j, "top_p", 0), FrequencyPenalty |-> Get(j, "frequency_penalty", 0),
     PresencePenalty |-> Get(j, "presence_penalty", 0),
     ExtraParams |-> GetMap(j, "extra_params")]

SystemPromptJSON(sp) ==
    [content |-> sp.Content, role |-> sp.Role]
    @@ OmitEmpty("metadata", MapEmpty(sp.Metadata), MapJSON(sp.Metadata))

SystemPromptFromJSON(j) ==
    [Content |-> Get(j, "content", ""), Role |-> Get(j, "role", ""),
     Metadata |-> GetMap(j, "metadata")]

Identity(x) == x

SessionMetadataJSON(md) ==
    [environment |-> md.Environment, tags |-> SliceJSON(Identity, md.Tags),
     response_time_ms |-> md.ResponseTimeMs]
    @@ OmitEmpty("custom_fields", MapEmpty(md.CustomFields), MapJSON(md.CustomFields))
    @@ OmitEmpty("total_cost", md.TotalCost = 0, md.TotalCost)
    @@ OmitEmpty("additional_info", MapEmpty(md.AdditionalInfo), MapJSON(md.AdditionalInfo))

SessionMetadataFromJSON(j) ==
    [Environment |-> Get(j, "environment", ""), Tags |-> GetSlice(Identity, j, "tags"),
     ResponseTimeMs |-> Get(j, "response_time_ms", 0),
     CustomFields |-> GetMap(j, "custom_fields"),
     TotalCost |-> Get(j, "total_cost", 0),
     AdditionalInfo |-> GetMap(j, "additional_info")]

\* ReplayContext.ToJSON: json.MarshalIndent of the struct.
ToJSON(r) ==
    [session_id |-> r.SessionID, user_id |-> r.UserID, trace_id |-> r.TraceID,
     timestamp |-> TimeJSON(r.Timestamp),
     model_config |-> ModelConfigJSON(r.ModelConfig),
     system_prompt |-> SystemPromptJSON(r.SystemPrompt),
     tools |-> SliceJSON(ToolDefJSON, r.Tools),
     conversation_history |-> SliceJSON(TurnJSON, r.ConversationHistory),
     metadata |-> SessionMetadataJSON(r.Metadata)]

\* json.Unmarshal of such a document into a zero ReplayContext.
FromJSON(j) ==
    [SessionID |-> Get(j, "session_id", ""), UserID |-> Get(j, "user_id", ""),
     TraceID |-> Get(j, "trace_id", ""),
     Timestamp |-> TimeFromJSON(Get(j, "timestamp", 0)),
     ModelConfig |-> ModelConfigFromJSON(Get(j, "model_config", NoKeys)),
     SystemPrompt |-> SystemPromptFromJSON(Get(j, "system_prompt", NoKeys)),
     Tools |-> GetSlice(ToolDefFromJSON, j, "tools"),
     ConversationHistory |-> GetSlice(TurnFromJSON, j, "conversation_history"),
     Metadata |-> SessionMetadataFromJSON(Get(j, "metadata", NoKeys))]

\* ------------------------------------------------------------------------
\* ContextBuilder
\* ------------------------------------------------------------------------
Usage(p, c) == [PromptTokens |-> p, CompletionTokens |-> c, TotalTokens |-> p + c]

\* ToolCallExecution
ToolCallRec(name, id, args, result, t0, t1, ok, err) ==
    [ToolName |-> name, ToolID |-> id, Arguments |-> args, Result |-> result,
     StartTime |-> t0, EndTime |-> t1, DurationMs |-> t1 - t0,
     Success |-> ok, Error |-> err]

\* Mutant: the two texts go to each other's field.
TurnRec_SwapTexts(round, ts, turnID, userMsg, assistantResp, hasToolCalls, toolCalls, tokenUsage) ==
    [Round |-> round, Timestamp |-> ts, TurnID |-> turnID,
     UserInput |-> [Role |-> "user", Content |-> assistantResp],
     LLMResponse |-> [Role |-> "assistant", Content |-> userMsg,
                      ToolCalls |-> hasToolCalls, Reasoning |-> "", FinishReason |-> ""],
     ToolCalls |-> toolCalls, TokenUsage |-> tokenUsage]

\* The ConversationTurn literal of AddTurn.
TurnRec(round, ts, turnID, userMsg, assistantResp, hasToolCalls, toolCalls, tokenUsage) ==
    [Round |-> round, Timestamp |-> ts, TurnID |-> turnID,
     UserInput |-> [Role |-> "user", Content |-> userMsg],
     LLMResponse |-> [Role |-> "assistant", Content |-> assistantResp,
                      ToolCalls |-> hasToolCalls, Reasoning |-> "", FinishReason |-> ""],
     ToolCalls |-> toolCalls, TokenUsage |-> tokenUsage]

DefaultTemperature == 7     \* 0.7, in tenths
DefaultMaxTokens == 2000

\* append(s, x).  With room left the element is written into the shared backing
\* array; otherwise a new array of doubled capacity is allocated.
GoAppend(arrs, s, x) ==
    IF s.len < s.cap
    THEN [arrays |-> [arrs EXCEPT ![s.arr].cells =
                        IF Len(@) > s.len THEN [@ EXCEPT ![s.len + 1] = x]
                        ELSE Append(@, x)],
          slice |-> [s EXCEPT !.len = s.len + 1]]
    ELSE LET newcap == IF s.cap = 0 THEN 1 ELSE 2 * s.cap
         IN [arrays |-> Append(arrs, [cap |-> newcap, cells |-> Elems(arrs, s) \o <<x>>]),
             slice |-> [arr |-> Len(arrs) + 1, len |-> s.len + 1, cap |-> newcap,
                        isnil |-> FALSE]]

\* A slice literal / make([]T, n) filled with cells.
NewSlice(arrs, cells) ==
    IF cells = <<>> THEN [arrays |-> arrs, slice |-> EmptySlice]
    ELSE [arrays |-> Append(arrs, [cap |-> Len(cells), cells |-> cells]),
          slice |-> [arr |-> Len(arrs) + 1, len |-> Len(cells), cap |-> Len(cells),
                     isnil |-> FALSE]]

NewContextBuilder(userID, baseURL, model) ==
    [sessionID |-> "", userID |-> userID,
     modelConfig |-> [Model |-> model, BaseURL |-> baseURL,
                      Temperature |-> DefaultTemperature, MaxTokens |-> DefaultMaxTokens,
                      TopP |-> 0, FrequencyPenalty |-> 0, PresencePenalty |-> 0,
                      ExtraParams |-> NilMap],
     systemPrompt |-> [Content |-> "", Role |-> "", Metadata |-> NilMap],
     tools |-> NilSlice,
     conversationCtx |-> EmptySlice,
     baseURL |-> baseURL]

SetSessionID(bb, sessionID) == [bb EXCEPT !.sessionID = sessionID]

\* Mutant: a nil metadata argument keeps the metadata set before.
SetSystemPrompt_KeepMetadata(bb, content, metadata) ==
    [bb EXCEPT !.systemPrompt =
        [Content |-> content, Role |-> "system",
         Metadata |-> IF metadata = NilMap THEN bb.systemPrompt.Metadata ELSE metadata]]

\* metadata is the caller's map (a reference, or nil).
SetSystemPrompt(bb, content, metadata) ==
    [bb EXCEPT !.systemPrompt = [Content |-> content, Role |-> "system", Metadata |-> metadata]]

\* Mutant: the parameters are left out of the Function map.
ToolFunctionMap_NoParameters(tool) ==
    ("name" :> AnyStr(tool.Function.Name))
    @@ ("description" :> AnyStr(tool.Function.Description))

\* The Function map literal made for one openai.Tool.
ToolFunctionMap(tool) ==
    ("name" :> AnyStr(tool.Function.Name))
    @@ ("description" :> AnyStr(tool.Function.Description))
    @@ ("parameters" :> AnyObj(tool.Function.Parameters))

\* Mutant: the tool list is rebuilt in the backing array the builder already has.
SetTools_InPlace(bb, arrs, mps, tools) ==
    LET cells == [i \in 1..Len(tools) |->
                    [Type |-> tools[i].Type, Function |-> Len(mps) + i]]
        newMaps == mps \o [i \in 1..Len(tools) |-> ToolFunctionMap(tools[i])]
    IN IF bb.tools.len >= Len(tools) /\ Len(tools) > 0
       THEN [b |-> [bb EXCEPT !.tools.len = Len(tools)],
             arrays |-> [arrs EXCEPT ![bb.tools.arr].cells =
                            [k \in 1..Len(@) |-> IF k <= Len(tools) THEN cells[k] ELSE @[k]]],
             maps |-> newMaps]
       ELSE LET r == NewSlice(arrs, cells)
            IN [b |-> [bb EXCEPT !.tools = r.slice], arrays |-> r.arrays, maps |-> newMaps]

\* b.tools = make([]ToolDefinition, len(tools)), one new Function map per tool.
SetTools(bb, arrs, mps, tools) ==
    LET cells == [i \in 1..Len(tools) |->
                    [Type |-> tools[i].Type, Function |-> Len(mps) + i]]
        r == NewSlice(arrs, cells)
    IN [b |-> [bb EXCEPT !.tools = r.slice],
        arrays |-> r.arrays,
        maps |-> mps \o [i \in 1..Len(tools) |-> ToolFunctionMap(tools[i])]]

SetModelParams(bb, temperature, maxTokens) ==
    [bb EXCEPT !.modelConfig.Temperature = temperature, !.modelConfig.MaxTokens = maxTokens]

\* Mutant: the new turn is stored over the last turn instead of after it.
AddTurn_OverwriteLast(bb, arrs, round, userMsg, assistantResp, toolCalls, tokenUsage, traceID, ts) ==
    LET turn == TurnRec(round, ts, traceID, userMsg, assistantResp,
                        toolCalls.len > 0, toolCalls, tokenUsage)
        s == bb.conversationCtx
        r == GoAppend(arrs, s, turn)
    IN IF s.len = 0 THEN [b |-> [bb EXCEPT !.conversationCtx = r.slice], arrays |-> r.arrays]
       ELSE [b |-> bb, arrays |-> [arrs EXCEPT ![s.arr].cells[s.len] = turn]]

\* Mutant: the turn is numbered by its position instead of the round given.
AddTurn_Renumber(bb, arrs, round, userMsg, assistantResp, toolCalls, tokenUsage, traceID, ts) ==
    LET turn == TurnRec(bb.conversationCtx.len + 1, ts, traceID, userMsg, assistantResp,
                        toolCalls.len > 0, toolCalls, tokenUsage)
        r == GoAppend(arrs, bb.conversationCtx, turn)
    IN [b |-> [bb EXCEPT !.conversationCtx = r.slice], arrays |-> r.arrays]

\* toolCalls is the caller's slice header; ts is what time.Now() returns.
AddTurn(bb, arrs, round, userMsg, assistantResp, toolCalls, tokenUsage, traceID, ts) ==
    LET turn == TurnRec(round, ts, traceID, userMsg, assistantResp,
                        toolCalls.len > 0, toolCalls, tokenUsage)
        r == GoAppend(arrs, bb.conversationCtx, turn)
    IN [b |-> [bb EXCEPT !.conversationCtx = r.slice], arrays |-> r.arrays]

\* The ReplayContext literal of Build: the builder's values and slice headers,
\* a fresh Tags slice.
Build(bb, arrs, traceID, ts) ==
    LET tags == NewSlice(arrs, <<"replay", "chat">>)
    IN [ctx |-> [SessionID |-> bb.sessionID, UserID |-> bb.userID, TraceID |-> traceID,
                 Timestamp |-> [wall |-> ts, mono |-> TRUE],
                 ModelConfig |-> bb.modelConfig,
                 SystemPrompt |-> bb.systemPrompt,
                 Tools |-> bb.tools,
                 ConversationHistory |-> bb.conversationCtx,
                 Metadata |-> [Environment |-> "", Tags |-> tags.slice,
                               CustomFields |-> NilMap, ResponseTimeMs |-> 0,
                               TotalCost |-> 0, AdditionalInfo |-> NilMap]],
        arrays |-> tags.arrays]

\* ------------------------------------------------------------------------
\* Reading a value through its references
\* ------------------------------------------------------------------------
LoadMap(mps, m) == IF m = NilMap THEN LoadedNilMap ELSE LoadedMap(mps[m])

LoadSlice(F(_), arrs, s) == IF s.isnil THEN LoadedNil ELSE Loaded(SeqMap(F, Elems(arrs, s)))

LoadToolCall(mps, tc) == [tc EXCEPT !.Arguments = LoadMap(mps, @)]

LoadTurn(arrs, mps, t) ==
    [t EXCEPT !.ToolCalls = LoadSlice(LAMBDA tc : LoadToolCall(mps, tc), arrs, @)]

LoadToolDef(mps, td) == [td EXCEPT !.Function = LoadMap(mps, @)]

LoadModelConfig(mps, mc) == [mc EXCEPT !.ExtraParams = LoadMap(mps, @)]

LoadSystemPrompt(mps, sp) == [sp EXCEPT !.Metadata = LoadMap(mps, @)]

\* A ReplayContext as its holder reads it in the heap (arrs, mps).
LoadContext(arrs, mps, r) ==
    [r EXCEPT
       !.ModelConfig = LoadModelConfig(mps, @),
       !.SystemPrompt = LoadSystemPrompt(mps, @),
       !.Tools = LoadSlice(LAMBDA td : LoadToolDef(mps, td), arrs, @),
       !.ConversationHistory = LoadSlice(LAMBDA t : LoadTurn(arrs, mps, t), arrs, @),
       !.Metadata = [@ EXCEPT !.Tags = LoadSlice(Identity, arrs, @),
                              !.CustomFields = LoadMap(mps, @),
                              !.AdditionalInfo = LoadMap(mps, @)]]

\* The builder's accumulated state as the builder reads it.
LoadBuilder(arrs, mps, bb) ==
    [bb EXCEPT
       !.modelConfig = LoadModelConfig(mps, @),
       !.systemPrompt = LoadSystemPrompt(mps, @),
       !.tools = LoadSlice(LAMBDA td : LoadToolDef(mps, td), arrs, @),
       !.conversationCtx = LoadSlice(LAMBDA t : LoadTurn(arrs, mps, t), arrs, @)]

\* ------------------------------------------------------------------------
\* A caller driving the builder's API
\* ------------------------------------------------------------------------
WeatherTool ==
    [Type |-> "function",
     Function |-> [Name |-> "get_weather", Description |-> "Get weather for a city",
                   Parameters |-> "schema:city"]]
CalcTool ==
    [Type |-> "function",
     Function |-> [Name |-> "calculator",
                   Description |-> "Calculate: add, subtract, multiply, divide",
                   Parameters |-> "schema:operation,a,b"]]

ApiSessionIDs == {"s1"}
ApiPrompts == {[content |-> "sys", metadata |-> LoadedMap("version" :> AnyStr("1.0"))]}
ApiToolLists == {<<WeatherTool>>, <<CalcTool, WeatherTool>>}
MainTools == <<WeatherTool, CalcTool>>
MainSystemPrompt == "Use get_weather for weather queries, calculator for math."
MainPromptMetadata == ("version" :> AnyStr("1.0")) @@ ("purpose" :> AnyStr("tool-use-demo"))
ApiModelParams == {<<2, 100>>}
ApiCallA == ToolCallRec("noop", "t1", LoadedMap("n" :> AnyFloat(1)), "ok", 0, 1, TRUE, "")
ApiTurnArgs ==
    {[round |-> 1, userMsg |-> "Hi", assistantResp |-> "Hello", calls |-> LoadedNil,
      tokenUsage |-> Usage(1, 2), traceID |-> "tr1", ts |-> 0],
     [round |-> MaxRound, userMsg |-> "Bye", assistantResp |-> "Goodbye",
      calls |-> Loaded(<<ApiCallA>>),
      tokenUsage |-> Usage(3, 4), traceID |-> "tr2", ts |-> MaxClock]}
ApiBuildArgs == {[traceID |-> "tr1", ts |-> 0]}

\* The caller makes a map from a literal (nil stays nil).
AllocMap(mps, lit) ==
    IF lit.isnil THEN [maps |-> mps, ref |-> NilMap]
    ELSE [maps |-> Append(mps, lit.kv), ref |-> Len(mps) + 1]

RECURSIVE AllocCallCells(_, _)
\* The caller makes the argument maps of a list of tool-call records.
AllocCallCells(mps, calls) ==
    IF calls = <<>> THEN [maps |-> mps, cells |-> <<>>]
    ELSE LET m == AllocMap(mps, Head(calls).Arguments)
             rest == AllocCallCells(m.maps, Tail(calls))
         IN [maps |-> rest.maps,
             cells |-> <<[Head(calls) EXCEPT !.Arguments = m.ref]>> \o rest.cells]

\* The caller makes its []ToolCallExecution (nil stays nil).
AllocCalls(arrs, mps, calls) ==
    IF calls.isnil THEN [arrays |-> arrs, maps |-> mps, slice |-> NilSlice, refs |-> {}]
    ELSE LET c == AllocCallCells(mps, calls.elems)
             r == NewSlice(arrs, c.cells)
         IN [arrays |-> r.arrays, maps |-> c.maps, slice |-> r.slice,
             refs |-> {c.cells[k].Arguments : k \in 1..Len(c.cells)} \ {NilMap}]

\* The builder as main sets it up before the first round: NewContextBuilder,
\* SetSessionID, SetSystemPrompt, SetTools.
MainBuilder ==
    LET b0 == NewContextBuilder("user-replay-demo-123", "url", "m")
        b1 == SetSessionID(b0, "session-uuid")
        md == AllocMap(<<>>, LoadedMap(MainPromptMetadata))
        b2 == SetSystemPrompt(b1, MainSystemPrompt, md.ref)
    IN SetTools(b2, <<>>, md.maps, MainTools)

\* The caller starts from a new builder or from one set up as main does.
ApiInit ==
    /\ phase = "api"
    /\ snaps = <<>>
    /\ \/ /\ b = NewContextBuilder("u1", "url", "m")
          /\ arrays = <<>> /\ maps = <<>>
       \/ /\ b = MainBuilder.b
          /\ arrays = MainBuilder.arrays /\ maps = MainBuilder.maps
    /\ caller = [lists |-> {}, maps |-> {}, setterCalls |-> 0, writes |-> 0]
    /\ IdleCodec /\ IdleLoop /\ IdleFetch

CanSet == phase = "api" /\ caller.setterCalls < MaxSetterCalls
Counted == [caller EXCEPT !.setterCalls = @ + 1]
ApiFrame == UNCHANGED <<phase, cvars, loop, fetch>>

CallSetSessionID ==
    /\ CanSet
    /\ \E sid \in ApiSessionIDs : b' = SetSessionID(b, sid)
    /\ caller' = Counted
    /\ UNCHANGED <<arrays, maps, snaps>> /\ ApiFrame

CallSetSystemPrompt ==
    /\ CanSet
    /\ \E sp \in ApiPrompts :
         LET m == AllocMap(maps, sp.metadata)
         IN /\ b' = SetSystemPrompt(b, sp.content, m.ref)
            /\ maps' = m.maps
    /\ caller' = Counted
    /\ UNCHANGED <<arrays, snaps>> /\ ApiFrame

CallSetTools ==
    /\ CanSet
    /\ \E tools \in ApiToolLists :
         LET r == SetTools(b, arrays, maps, tools)
         IN b' = r.b /\ arrays' = r.arrays /\ maps' = r.maps
    /\ caller' = Counted
    /\ UNCHANGED snaps /\ ApiFrame

CallSetModelParams ==
    /\ CanSet
    /\ \E mp \in ApiModelParams : b' = SetModelParams(b, mp[1], mp[2])
    /\ caller' = Counted
    /\ UNCHANGED <<arrays, maps, snaps>> /\ ApiFrame

CallAddTurn ==
    /\ phase = "api"
    /\ b.conversationCtx.len < MaxTurns
    /\ \E a \in ApiTurnArgs :
         LET c == AllocCalls(arrays, maps, a.calls)
             r == AddTurn(b, c.arrays, a.round, a.userMsg, a.assistantResp, c.slice,
                          a.tokenUsage, a.traceID, a.ts)
         IN /\ b' = r.b /\ arrays' = r.arrays /\ maps' = c.maps
            /\ caller' = [caller EXCEPT
                            !.lists = IF c.slice.isnil THEN @ ELSE @ \cup {c.slice},
                            !.maps = @ \cup c.refs]
    /\ UNCHANGED snaps /\ ApiFrame

CallBuild ==
    /\ phase = "api"
    /\ Len(snaps) < MaxSnaps
    /\ \E a \in ApiBuildArgs :
         LET r == Build(b, arrays, a.traceID, a.ts)
         IN snaps' = Append(snaps, r.ctx) /\ arrays' = r.arrays
    /\ UNCHANGED <<b, maps, caller>> /\ ApiFrame

ApiNext ==
    \/ CallSetSessionID \/ CallSetSystemPrompt \/ CallSetTools \/ CallSetModelParams
    \/ CallAddTurn \/ CallBuild

SpecApi == ApiInit /\ [][ApiNext]_vars

\* What the holder of snapshot i reads.
SnapshotView(i) == LoadContext(arrays, maps, snaps[i])
BuilderView == LoadBuilder(arrays, maps, b)

\* C5: a snapshot returned by Build reads the same after any later setter or
\* AddTurn call on the builder (history, tools, system prompt, model config,
\* session id).
C5_SnapshotUnaffected ==
    [][\A i \in 1..Len(snaps) :
          LoadContext(arrays', maps', snaps'[i]) = LoadContext(arrays, maps, snaps[i])]_vars

\* A snapshot that shares its history's backing array with the builder, which
\* has since appended a turn into that array.
C5_Witness ==
    \E i \in 1..Len(snaps) :
        /\ snaps[i].ConversationHistory.len > 0
        /\ snaps[i].ConversationHistory.arr = b.conversationCtx.arr
        /\ snaps[i].ConversationHistory.len < b.conversationCtx.len

\* ------------------------------------------------------------------------
\* The caller writing through the references it holds
\* ------------------------------------------------------------------------
CanWrite == phase = "api" /\ caller.writes < MaxWrites
Written == [caller EXCEPT !.writes = @ + 1]

\* s := snaps[i]; s.ConversationHistory[k].UserInput.Content = "edited"
WriteSnapshotTurn(i, k) ==
    /\ CanWrite
    /\ i \in 1..Len(snaps) /\ k \in 1..snaps[i].ConversationHistory.len
    /\ arrays' = [arrays EXCEPT
                    ![snaps[i].ConversationHistory.arr].cells[k].UserInput.Content = "edited"]
    /\ caller' = Written
    /\ UNCHANGED <<b, maps, snaps>> /\ ApiFrame

\* s := snaps[i]; s.Tools[k].Type = "edited"
WriteSnapshotTool(i, k) ==
    /\ CanWrite
    /\ i \in 1..Len(snaps) /\ k \in 1..snaps[i].Tools.len
    /\ arrays' = [arrays EXCEPT ![snaps[i].Tools.arr].cells[k].Type = "edited"]
    /\ caller' = Written
    /\ UNCHANGED <<b, maps, snaps>> /\ ApiFrame

\* toolCalls[k].Result = "edited", on a list the caller passed to AddTurn
WriteHeldCall(l, k) ==
    /\ CanWrite
    /\ l \in caller.lists /\ k \in 1..l.len
    /\ arrays' = [arrays EXCEPT ![l.arr].cells[k].Result = "edited"]
    /\ caller' = Written
    /\ UNCHANGED <<b, maps, snaps>> /\ ApiFrame

\* args["n"] = "edited", on an arguments map of a call the caller passed to AddTurn
WriteHeldArguments(m) ==
    /\ CanWrite
    /\ m \in caller.maps
    /\ maps' = [maps EXCEPT ![m] = ("n" :> AnyStr("edited")) @@ @]
    /\ caller' = Written
    /\ UNCHANGED <<b, arrays, snaps>> /\ ApiFrame

WriteThroughSnapshot ==
    \E i \in 1..Len(snaps) :
        \/ \E k \in 1..snaps[i].ConversationHistory.len : WriteSnapshotTurn(i, k)
        \/ \E k \in 1..snaps[i].Tools.len : WriteSnapshotTool(i, k)

WriteThroughHeld ==
    \/ \E l \in caller.lists : \E k \in 1..l.len : WriteHeldCall(l, k)
    \/ \E m \in caller.maps : WriteHeldArguments(m)

AliasNext == ApiNext \/ WriteThroughSnapshot \/ WriteThroughHeld

SpecAlias == ApiInit /\ [][AliasNext]_vars

OthersUnchanged(i) ==
    /\ BuilderView' = BuilderView
    /\ \A j \in (1..Len(snaps)) \ {i} : SnapshotView(j)' = SnapshotView(j)

\* C6: Build deep-copies, so once a snapshot has been built a write to a turn or
\* a tool entry of snapshot i, or to a tool-call list or arguments map passed to
\* AddTurn, changes neither what the builder has accumulated nor any other
\* snapshot.
C6_BuildDeepCopies ==
    [][/\ \A i \in 1..Len(snaps) :
            (\/ \E k \in 1..snaps[i].ConversationHistory.len : WriteSnapshotTurn(i, k)
             \/ \E k \in 1..snaps[i].Tools.len : WriteSnapshotTool(i, k))
            => OthersUnchanged(i)
       /\ (Len(snaps) > 0 /\ WriteThroughHeld) => OthersUnchanged(0)]_vars

\* ------------------------------------------------------------------------
\* A caller that chooses the round of each AddTurn
\* ------------------------------------------------------------------------
\* Rounds the caller passes: in sequence, repeated, smaller than before, zero.
TurnRounds == 0..(MaxRound + 1)

\* A new builder; caller.turns lists the arguments of the AddTurn calls made.
TurnsInit ==
    /\ phase = "api"
    /\ snaps = <<>>
    /\ b = NewContextBuilder("u1", "url", "m")
    /\ arrays = <<>> /\ maps = <<>>
    /\ caller = [lists |-> {}, maps |-> {}, setterCalls |-> 0, writes |-> 0,
                 turns |-> <<>>]
    /\ IdleCodec /\ IdleLoop /\ IdleFetch

\* builder.AddTurn(round, ...) with any round.
CallAddTurnRound ==
    /\ phase = "api"
    /\ b.conversationCtx.len < MaxSeq
    /\ \E round \in TurnRounds, a0 \in ApiTurnArgs :
         LET a == [a0 EXCEPT !.round = round]
             c == AllocCalls(arrays, maps, a.calls)
             r == AddTurn(b, c.arrays, a.round, a.userMsg, a.assistantResp, c.slice,
                          a.tokenUsage, a.traceID, a.ts)
         IN /\ b' = r.b /\ arrays' = r.arrays /\ maps' = c.maps
            /\ caller' = [caller EXCEPT
                            !.lists = IF c.slice.isnil THEN @ ELSE @ \cup {c.slice},
                            !.maps = @ \cup c.refs,
                            !.turns = Append(@, a)]
    /\ UNCHANGED snaps /\ ApiFrame

TurnsNext == CallAddTurnRound \/ CallBuild

SpecTurns == TurnsInit /\ [][TurnsNext]_vars

\* The turn a history holds for the AddTurn call with arguments a.
TurnOfCall(t, a) ==
    /\ t.Round = a.round
    /\ t.UserInput.Content = a.userMsg
    /\ t.LLMResponse.Content = a.assistantResp
    /\ t.ToolCalls = a.calls
    /\ t.TokenUsage = a.tokenUsage
    /\ t.TurnID = a.traceID

\* C14: after AddTurn calls with the rounds 1, 2, ..., N in this order on a new
\* builder, Build returns a history of length N whose turn i has round i and
\* the user text, assistant text, tool calls, token usage and turn id of call i.
C14_SequentialRounds ==
    [][(Len(snaps') = Len(snaps) + 1
        /\ \A k \in 1..Len(caller.turns) : caller.turns[k].round = k) =>
          LET h == LoadContext(arrays', maps', snaps'[Len(snaps')]).ConversationHistory.elems
          IN /\ Len(h) = Len(caller.turns)
             /\ \A k \in 1..Len(h) : h[k].Round = k /\ TurnOfCall(h[k], caller.turns[k])]_vars

\* A snapshot built after AddTurn calls with the rounds 1, 2, 3.
C14_Witness ==
    /\ phase = "api" /\ Len(snaps) = 1
    /\ "turns" \in DOMAIN caller
    /\ [k \in 1..Len(caller.turns) |-> caller.turns[k].round] = <<1, 2, 3>>
    /\ snaps[1].ConversationHistory.len = 3

\* C15: AddTurn with any round, also one equal to or smaller than an earlier
\* round, appends exactly one turn at the end of the history, with the round
\* given; the turns before it stay as they were.
C15_AddTurnAppendsAsGiven ==
    [][("turns" \in DOMAIN caller /\ caller'.turns # caller.turns) =>
          LET h == BuilderView.conversationCtx.elems
              a == caller'.turns[Len(caller'.turns)]
          IN /\ Len(BuilderView'.conversationCtx.elems) = Len(h) + 1
             /\ SubSeq(BuilderView'.conversationCtx.elems, 1, Len(h)) = h
             /\ TurnOfCall(BuilderView'.conversationCtx.elems[Len(h) + 1], a)]_vars

\* A builder whose history holds the rounds 2, 2, 1 as they were given.
C15_Witness ==
    /\ phase = "api" /\ "turns" \in DOMAIN caller
    /\ [k \in 1..Len(caller.turns) |-> caller.turns[k].round] = <<2, 2, 1>>
    /\ [k \in 1..b.conversationCtx.len |-> Elems(arrays, b.conversationCtx)[k].Round]
         = <<2, 2, 1>>

\* A turn put into a sequence sorted by round, after the turns of equal round.
InsertByRound(sorted, t) ==
    LET before == SelectSeq(sorted, LAMBDA u : u.Round <= t.Round)
        after == SelectSeq(sorted, LAMBDA u : u.Round > t.Round)
    IN before \o <<t>> \o after

RECURSIVE SortByRound(_)
\* The turns in ascending order of round, turns of equal round in stored order.
SortByRound(turns) ==
    IF turns = <<>> THEN <<>>
    ELSE InsertByRound(SortByRound(SubSeq(turns, 1, Len(turns) - 1)), turns[Len(turns)])

\* C16: for every context Build returns, the projection emits the messages of
\* the turns in ascending order of the turns' rounds.
C16_RoundOrder ==
    \A i \in 1..Len(snaps) :
        LET c == SnapshotView(i)
        IN ToOpenAIMessages(c) =
             <<Msg("system", c.SystemPrompt.Content, "")>>
             \o HistoryMessages(SortByRound(c.ConversationHistory.elems))

\* ------------------------------------------------------------------------
\* A caller that takes several snapshots while it adds turns
\* ------------------------------------------------------------------------
AppendInit ==
    /\ phase = "api"
    /\ snaps = <<>>
    /\ b = NewContextBuilder("u1", "url", "m")
    /\ arrays = <<>> /\ maps = <<>>
    /\ caller = [lists |-> {}, maps |-> {}, setterCalls |-> 0, writes |-> 0]
    /\ IdleCodec /\ IdleLoop /\ IdleFetch

\* builder.AddTurn(...)
AppendAddTurn ==
    /\ phase = "api"
    /\ b.conversationCtx.len < MaxAppends
    /\ \E a \in ApiTurnArgs :
         LET c == AllocCalls(arrays, maps, a.calls)
             r == AddTurn(b, c.arrays, a.round, a.userMsg, a.assistantResp, c.slice,
                          a.tokenUsage, a.traceID, a.ts)
         IN /\ b' = r.b /\ arrays' = r.arrays /\ maps' = c.maps
            /\ caller' = [caller EXCEPT
                            !.lists = IF c.slice.isnil THEN @ ELSE @ \cup {c.slice},
                            !.maps = @ \cup c.refs]
    /\ UNCHANGED snaps /\ ApiFrame

\* builder.Build(traceID), the snapshot kept by the caller.
AppendBuild ==
    /\ phase = "api"
    /\ Len(snaps) < MaxBuilds
    /\ \E a \in ApiBuildArgs, ts \in Times :
         LET r == Build(b, arrays, a.traceID, ts)
         IN snaps' = Append(snaps, r.ctx) /\ arrays' = r.arrays
    /\ UNCHANGED <<b, maps, caller>> /\ ApiFrame

AppendNext == AppendAddTurn \/ AppendBuild

SpecAppend == AppendInit /\ [][AppendNext]_vars

IsPrefix(s, t) == Len(s) <= Len(t) /\ SubSeq(t, 1, Len(s)) = s

\* C23: the history is append-only. A Build leaves the builder as it was; any
\* other step is an AddTurn, which makes the history one longer and keeps the
\* earlier turns; and of two snapshots the history of the
\* earlier is a prefix of the history of the later.
C23_AppendOnly ==
    [][/\ IF Len(snaps') > Len(snaps) THEN BuilderView' = BuilderView
          ELSE LET h == BuilderView.conversationCtx.elems
               IN /\ Len(BuilderView'.conversationCtx.elems) = Len(h) + 1
                  /\ SubSeq(BuilderView'.conversationCtx.elems, 1, Len(h)) = h
       /\ \A s, t \in 1..Len(snaps') :
            s <= t =>
              IsPrefix(LoadContext(arrays', maps', snaps'[s]).ConversationHistory.elems,
                       LoadContext(arrays', maps', snaps'[t]).ConversationHistory.elems)]_vars

\* Two snapshots of one builder, taken after the first and after the third turn.
C23_Witness ==
    /\ phase = "api" /\ Len(snaps) = 2
    /\ snaps[1].ConversationHistory.len = 1
    /\ snaps[2].ConversationHistory.len = 3
    /\ b.conversationCtx.len = 3

\* ------------------------------------------------------------------------
\* Two goroutines that call AddTurn on one builder
\* ------------------------------------------------------------------------
Goroutines == {1, 2}
Other(t) == 3 - t

RaceTurnID(t) == IF t = 1 THEN "race-1" ELSE "race-2"

\* The ConversationTurn literal goroutine t makes in AddTurn.
RaceTurn(t, ts) ==
    TurnRec(t, ts, RaceTurnID(t), "Hi", "Hello", FALSE, NilSlice, Usage(t, t))

RECURSIVE RaceBuilder(_)
\* The builder after n sequential AddTurn calls.
RaceBuilder(n) ==
    IF n = 0 THEN [b |-> NewContextBuilder("u1", "url", "m"), arrays |-> <<>>]
    ELSE LET p == RaceBuilder(n - 1)
         IN AddTurn(p.b, p.arrays, n, "Q", "A", NilSlice, Usage(1, 1), "base", 0)

\* The callers either share a mutex that each holds around its AddTurn call
\* (useLock) or call AddTurn unprotected.
RaceInit ==
    /\ phase = "race"
    /\ snaps = <<>> /\ maps = <<>>
    /\ \E n \in 0..MaxRaceBase, useLock \in BOOLEAN :
         /\ b = RaceBuilder(n).b
         /\ arrays = RaceBuilder(n).arrays
         /\ caller = [useLock |-> useLock, mu |-> 0, base |-> n,
                      pc |-> [t \in Goroutines |-> "start"],
                      turn |-> [t \in Goroutines |-> RaceTurn(t, 0)],
                      operand |-> [t \in Goroutines |-> NilSlice],
                      result |-> [t \in Goroutines |-> NilSlice],
                      overlap |-> FALSE]
    /\ IdleCodec /\ IdleLoop /\ IdleFetch

RaceFrame == UNCHANGED <<phase, snaps, maps, cvars, loop, fetch>>

\* Mutant: Lock does not wait for the holder of the mutex.
RaceLock_NoWait(t) ==
    /\ phase = "race" /\ caller.useLock
    /\ caller.pc[t] = "start"
    /\ caller' = [caller EXCEPT !.mu = t, !.pc[t] = "locked"]
    /\ UNCHANGED <<b, arrays>> /\ RaceFrame

\* mu.Lock() before the call.
RaceLock(t) ==
    /\ phase = "race" /\ caller.useLock
    /\ caller.pc[t] = "start" /\ caller.mu = 0
    /\ caller' = [caller EXCEPT !.mu = t, !.pc[t] = "locked"]
    /\ UNCHANGED <<b, arrays>> /\ RaceFrame

\* AddTurn up to the evaluation of the operands of append: the turn literal
\* (time.Now()) and the slice header read from b.conversationCtx.
RaceRead(t) ==
    /\ phase = "race"
    /\ caller.pc[t] = (IF caller.useLock THEN "locked" ELSE "start")
    /\ \E ts \in Times :
         caller' = [caller EXCEPT
                      !.pc[t] = "read",
                      !.turn[t] = RaceTurn(t, ts),
                      !.operand[t] = b.conversationCtx,
                      !.overlap = @ \/ caller.pc[Other(t)] \in {"read", "appended"}]
    /\ UNCHANGED <<b, arrays>> /\ RaceFrame

\* append(...) on the header read: the turn goes into the spare cell of the
\* backing array or into a new array.
RaceAppend(t) ==
    /\ phase = "race" /\ caller.pc[t] = "read"
    /\ LET r == GoAppend(arrays, caller.operand[t], caller.turn[t])
       IN /\ arrays' = r.arrays
          /\ caller' = [caller EXCEPT !.pc[t] = "appended", !.result[t] = r.slice]
    /\ UNCHANGED b /\ RaceFrame

\* b.conversationCtx = (the result of append); AddTurn returns.
RaceStore(t) ==
    /\ phase = "race" /\ caller.pc[t] = "appended"
    /\ b' = [b EXCEPT !.conversationCtx = caller.result[t]]
    /\ caller' = [caller EXCEPT !.pc[t] = IF caller.useLock THEN "stored" ELSE "done"]
    /\ UNCHANGED arrays /\ RaceFrame

\* mu.Unlock() after the call.
RaceUnlock(t) ==
    /\ phase = "race" /\ caller.useLock
    /\ caller.pc[t] = "stored"
    /\ caller' = [caller EXCEPT !.mu = 0, !.pc[t] = "done"]
    /\ UNCHANGED <<b, arrays>> /\ RaceFrame

RaceNext ==
    \E t \in Goroutines :
        RaceLock(t) \/ RaceRead(t) \/ RaceAppend(t) \/ RaceStore(t) \/ RaceUnlock(t)

SpecRace == RaceInit /\ [][RaceNext]_vars

\* The turn of goroutine t is in the history of the builder.
RacePresent(t) ==
    \E k \in 1..Len(BuilderView.conversationCtx.elems) :
        /\ BuilderView.conversationCtx.elems[k].TurnID = RaceTurnID(t)
        /\ BuilderView.conversationCtx.elems[k].Timestamp = caller.turn[t].Timestamp

RaceDone == phase = "race" /\ \A t \in Goroutines : caller.pc[t] = "done"

\* C28: once both AddTurn calls have returned, the history holds both turns
\* if the calls were made under the lock; without the lock it holds both
\* turns unless both calls read the history before either wrote it back, and
\* then it holds exactly one of the two.
C28_LostUpdateOnlyWithoutLock ==
    RaceDone =>
        LET n == Len(BuilderView.conversationCtx.elems)
        IN IF caller.useLock \/ ~caller.overlap
           THEN RacePresent(1) /\ RacePresent(2) /\ n = caller.base + 2
           ELSE /\ RacePresent(1) # RacePresent(2)
                /\ n = caller.base + 1

\* Without the lock: both calls have returned and the history holds the turn
\* of the first goroutine only, in a cell of the array the builder had.
C28_Witness ==
    /\ RaceDone /\ ~caller.useLock
    /\ caller.base = 3 /\ b.conversationCtx.len = 4 /\ Len(arrays) = 3
    /\ RacePresent(1) /\ ~RacePresent(2)

\* Under the lock both calls have returned and both turns are in the history.
C28_WitnessLocked ==
    /\ RaceDone /\ caller.useLock
    /\ RacePresent(1) /\ RacePresent(2)

\* ------------------------------------------------------------------------
\* A caller that calls the configuration setters repeatedly
\* ------------------------------------------------------------------------
SetterSessionIDs == {"s1", "s2"}
SetterPrompts ==
    {[content |-> "sys", metadata |-> LoadedMap("version" :> AnyStr("1.0"))],
     [content |-> "other", metadata |-> LoadedNilMap]}
SetterToolLists == {<<>>, <<WeatherTool>>, <<CalcTool, WeatherTool>>}
SetterModelParams == {<<2, 100>>, <<0, 0>>}

\* A new builder; caller.called names the setters called so far and caller.last
\* holds the arguments of the most recent call of each of them.
SettersInit ==
    /\ phase = "api"
    /\ snaps = <<>>
    /\ b = NewContextBuilder("u1", "url", "m")
    /\ arrays = <<>> /\ maps = <<>>
    /\ caller = [lists |-> {}, maps |-> {}, setterCalls |-> 0, writes |-> 0,
                 called |-> {},
                 last |-> [sessionID |-> "", prompt |-> [content |-> "", metadata |-> LoadedNilMap],
                           tools |-> <<>>, params |-> <<0, 0>>]]
    /\ IdleCodec /\ IdleLoop /\ IdleFetch

CanSetAgain == phase = "api" /\ caller.setterCalls < MaxSets

AgainSetSessionID ==
    /\ CanSetAgain
    /\ \E sid \in SetterSessionIDs :
         /\ b' = SetSessionID(b, sid)
         /\ caller' = [caller EXCEPT !.setterCalls = @ + 1, !.last.sessionID = sid,
                            !.called = @ \cup {"sessionID"}]
    /\ UNCHANGED <<arrays, maps, snaps>> /\ ApiFrame

AgainSetSystemPrompt ==
    /\ CanSetAgain
    /\ \E sp \in SetterPrompts :
         LET m == AllocMap(maps, sp.metadata)
         IN /\ b' = SetSystemPrompt(b, sp.content, m.ref)
            /\ maps' = m.maps
            /\ caller' = [caller EXCEPT !.setterCalls = @ + 1, !.last.prompt = sp,
                            !.called = @ \cup {"prompt"}]
    /\ UNCHANGED <<arrays, snaps>> /\ ApiFrame

AgainSetTools ==
    /\ CanSetAgain
    /\ \E tools \in SetterToolLists :
         LET r == SetTools(b, arrays, maps, tools)
         IN /\ b' = r.b /\ arrays' = r.arrays /\ maps' = r.maps
            /\ caller' = [caller EXCEPT !.setterCalls = @ + 1, !.last.tools = tools,
                            !.called = @ \cup {"tools"}]
    /\ UNCHANGED snaps /\ ApiFrame

AgainSetModelParams ==
    /\ CanSetAgain
    /\ \E mp \in SetterModelParams :
         /\ b' = SetModelParams(b, mp[1], mp[2])
         /\ caller' = [caller EXCEPT !.setterCalls = @ + 1, !.last.params = mp,
                            !.called = @ \cup {"params"}]
    /\ UNCHANGED <<arrays, maps, snaps>> /\ ApiFrame

SettersNext ==
    \/ AgainSetSessionID \/ AgainSetSystemPrompt \/ AgainSetTools \/ AgainSetModelParams
    \/ CallBuild

SpecSetters == SettersInit /\ [][SettersNext]_vars

\* The tool list a context reports for the list given to SetTools.
ToolsOfCall(tools) ==
    Loaded([k \in 1..Len(tools) |->
              [Type |-> tools[k].Type,
               Function |-> LoadedMap(("name" :> AnyStr(tools[k].Function.Name))
                                      @@ ("description" :> AnyStr(tools[k].Function.Description))
                                      @@ ("parameters" :> AnyObj(tools[k].Function.Parameters)))]])

\* C18: after any sequence of setter calls, Build reports for each field the
\* arguments of the most recent call of its setter and nothing of the earlier
\* calls: the session id, the prompt's content and metadata, the whole tool
\* list, the temperature and the token limit.
C18_LastWriteWins ==
    [][Len(snaps') = Len(snaps) + 1 =>
          LET c == LoadContext(arrays', maps', snaps'[Len(snaps')])
              last == caller.last
          IN /\ "sessionID" \in caller.called => c.SessionID = last.sessionID
             /\ "prompt" \in caller.called =>
                   c.SystemPrompt = [Content |-> last.prompt.content, Role |-> "system",
                                     Metadata |-> last.prompt.metadata]
             /\ "tools" \in caller.called => c.Tools = ToolsOfCall(last.tools)
             /\ "params" \in caller.called =>
                   /\ c.ModelConfig.Temperature = last.params[1]
                   /\ c.ModelConfig.MaxTokens = last.params[2]]_vars

\* A snapshot built after a SetSystemPrompt with metadata, a SetSystemPrompt
\* without, and a SetSessionID.
C18_Witness ==
    /\ phase = "api" /\ Len(snaps) = 1
    /\ "last" \in DOMAIN caller
    /\ caller.setterCalls = 3
    /\ caller.called = {"sessionID", "prompt"}
    /\ caller.last.prompt.content = "other"
    /\ Len(maps) = 1
    /\ snaps[1].SystemPrompt.Metadata = NilMap

\* A snapshot built after SetTools with two tools and then SetTools with one.
C18_WitnessTools ==
    /\ phase = "api" /\ Len(snaps) = 1
    /\ "last" \in DOMAIN caller
    /\ caller.setterCalls = 2 /\ Len(maps) = 3 /\ caller.called = {"tools"}
    /\ caller.last.tools = <<WeatherTool>>
    /\ snaps[1].Tools.len = 1

\* C22: the tools of a context Build returns are as many as the tools last
\* given to SetTools and in their order: entry i has the type of the i-th tool
\* and its function's name, description and parameters.
C22_ToolsAsGiven ==
    [][(Len(snaps') = Len(snaps) + 1 /\ "tools" \in caller.called) =>
          LET given == caller.last.tools
              built == LoadContext(arrays', maps', snaps'[Len(snaps')]).Tools
          IN /\ ~built.isnil /\ Len(built.elems) = Len(given)
             /\ \A k \in 1..Len(given) :
                  LET fn == built.elems[k].Function
                  IN /\ built.elems[k].Type = given[k].Type
                     /\ ~fn.isnil
                     /\ DOMAIN fn.kv = {"name", "description", "parameters"}
                     /\ fn.kv["name"] = AnyStr(given[k].Function.Name)
                     /\ fn.kv["description"] = AnyStr(given[k].Function.Description)
                     /\ fn.kv["parameters"] = AnyObj(given[k].Function.Parameters)]_vars

\* A snapshot built after SetTools with one tool and then SetTools with two,
\* the calculator first.
C22_Witness ==
    /\ phase = "api" /\ Len(snaps) = 1
    /\ "last" \in DOMAIN caller
    /\ caller.setterCalls = 2 /\ Len(maps) = 3 /\ caller.called = {"tools"}
    /\ caller.last.tools = <<CalcTool, WeatherTool>>
    /\ snaps[1].Tools.len = 2

\* C19: every context Build returns has the system prompt role "system",
\* whatever was called before, also when SetSystemPrompt never was.
C19_RoleIsSystem ==
    \A i \in 1..Len(snaps) : snaps[i].SystemPrompt.Role = "system"

\* ------------------------------------------------------------------------
\* The chat loop of main
\* ------------------------------------------------------------------------
Questions ==
    <<[question |-> "What is the weather in Beijing?", category |-> "weather"],
      [question |-> "What is 1 plus 1?", category |-> "math"],
      [question |-> "Which year is it?", category |-> "general"]>>

\* IDs of the traces CreateTrace returns, in creation order.
TraceIDs == <<"trace-1", "trace-2", "trace-3", "trace-4">>

\* The weatherData table of executeTool (the two Chinese city names written in ASCII).
WeatherData == ("Beijing" :> "Weather in Beijing: 22C, sunny")
               @@ ("Shanghai" :> "Weather in Shanghai: 26C, cloudy")
               @@ ("Tokyo" :> "Weather in Tokyo: 20C, Rainy")
WeatherUnavailable == ("Paris" :> "Weather for Paris: unavailable")
                      @@ ("" :> "Weather for : unavailable")

\* fmt.Sprintf("%.2f", h / 2) for the results that occur.
FormatHalves == (-4 :> "-2.00") @@ (-2 :> "-1.00") @@ (0 :> "0.00") @@ (1 :> "0.50")
                @@ (2 :> "1.00") @@ (4 :> "2.00") @@ (6 :> "3.00") @@ (8 :> "4.00")

\* args[key].(string) and args[key].(float64): the zero value when the key is
\* absent or holds another type (args may be nil).
ArgString(args, key) ==
    IF key \in DOMAIN args.kv /\ args.kv[key].ty = "string" THEN args.kv[key].v ELSE ""
ArgFloat(args, key) ==
    IF key \in DOMAIN args.kv /\ args.kv[key].ty = "float64" THEN args.kv[key].v ELSE 0

\* executeTool: the result text; failures are reported in the text only.
executeTool(toolCall) ==
    LET args == toolCall.Args
    IN CASE toolCall.Name = "get_weather" ->
              LET city == ArgString(args, "city")
              IN IF city \in DOMAIN WeatherData THEN WeatherData[city]
                 ELSE WeatherUnavailable[city]
         [] toolCall.Name = "calculator" ->
              LET op == ArgString(args, "operation")
                  x == ArgFloat(args, "a")
                  y == ArgFloat(args, "b")
              IN CASE op = "add" -> FormatHalves[2 * (x + y)]
                   [] op = "subtract" -> FormatHalves[2 * (x - y)]
                   [] op = "multiply" -> FormatHalves[2 * (x * y)]
                   [] op = "divide" -> IF y = 0 THEN "Error: division by zero"
                                       ELSE FormatHalves[(2 * x) \div y]
                   [] OTHER -> FormatHalves[0]
         [] OTHER -> "Unknown tool: other"

\* Tool calls the model may request: ID, function name, and the arguments as
\* json.Unmarshal reads them (nil when the text does not parse).
CallWeather == [ID |-> "call-w", Name |-> "get_weather",
                Args |-> LoadedMap("city" :> AnyStr("Tokyo"))]
CallDivide == [ID |-> "call-d", Name |-> "calculator",
               Args |-> LoadedMap(("operation" :> AnyStr("divide"))
                                  @@ ("a" :> AnyFloat(1)) @@ ("b" :> AnyFloat(0)))]
CallUnknown == [ID |-> "call-u", Name |-> "other", Args |-> LoadedNilMap]

\* First responses of the chat-completion API: the assistant message and usage.
ChatResponses ==
    {[Content |-> "It is 2026.", ToolCalls |-> <<>>, Usage |-> Usage(1, 2)],
     [Content |-> "", ToolCalls |-> <<CallWeather>>, Usage |-> Usage(2, 1)],
     [Content |-> "", ToolCalls |-> <<CallDivide, CallUnknown>>, Usage |-> Usage(2, 2)]}
\* Responses to the second call of a round.
ChatFinalResponses == {[Content |-> "final answer", Usage |-> Usage(3, 4)]}

\* make([]T, 0, n)
MakeSlice(arrs, n) ==
    IF n = 0 THEN [arrays |-> arrs, slice |-> EmptySlice]
    ELSE [arrays |-> Append(arrs, [cap |-> n, cells |-> <<>>]),
          slice |-> [arr |-> Len(arrs) + 1, len |-> 0, cap |-> n, isnil |-> FALSE]]

\* time.Now(): the wall clock does not go back during the run.
Now(l) == {u \in Times : u = l.now \/ u = l.now + 1}

NoGeneration == [usage |-> Usage(0, 0), updated |-> FALSE]

ChatInit ==
    /\ phase = "chat"
    /\ b = MainBuilder.b /\ arrays = MainBuilder.arrays /\ maps = MainBuilder.maps
    /\ snaps = <<>>
    /\ caller = [lists |-> {}, maps |-> {}, setterCalls |-> 0, writes |-> 0]
    /\ loop = [pc |-> "round", i |-> 0, now |-> 0,
               messages |-> <<Msg("system", MainSystemPrompt, "")>>,
               traces |-> 0, traceID |-> "",
               assistantMsg |-> [Content |-> "", ToolCalls |-> <<>>],
               usage |-> Usage(0, 0), j |-> 0,
               toolExecutions |-> NilSlice, toolCallsUsed |-> FALSE,
               finalAnswer |-> "",
               generation |-> NoGeneration,
               stored |-> <<>>]
    /\ IdleCodec /\ IdleFetch

ChatFrame == UNCHANGED <<phase, cvars, fetch>>

\* The per-round locals as declared at the top of an iteration.
NextRound(l) ==
    [l EXCEPT !.pc = IF l.i + 1 < Len(Questions) THEN "round" ELSE "summary",
              !.i = l.i + 1, !.traceID = "",
              !.assistantMsg = [Content |-> "", ToolCalls |-> <<>>],
              !.usage = Usage(0, 0), !.j = 0,
              !.toolExecutions = NilSlice, !.toolCallsUsed = FALSE,
              !.finalAnswer = "", !.generation = NoGeneration]

\* CreateTrace succeeds: the user message is appended, the generation is
\* created with the messages as input.
ChatCreateTrace ==
    /\ phase = "chat" /\ loop.pc = "round"
    /\ loop' = [loop EXCEPT
                  !.pc = "completion",
                  !.traces = @ + 1,
                  !.traceID = TraceIDs[loop.traces + 1],
                  !.messages = Append(@, Msg("user", Questions[loop.i + 1].question, ""))]
    /\ UNCHANGED bvars /\ ChatFrame

\* CreateTrace returns an error: the round is skipped (continue).
ChatCreateTraceFails ==
    /\ phase = "chat" /\ loop.pc = "round"
    /\ loop' = NextRound(loop)
    /\ UNCHANGED bvars /\ ChatFrame

\* The first CreateChatCompletion returns a response.
ChatCompletion ==
    /\ phase = "chat" /\ loop.pc = "completion"
    /\ \E resp \in ChatResponses :
         LET n == Len(resp.ToolCalls)
             mk == MakeSlice(arrays, n)
         IN /\ arrays' = IF n > 0 THEN mk.arrays ELSE arrays
            /\ loop' = [loop EXCEPT
                  !.assistantMsg = [Content |-> resp.Content, ToolCalls |-> resp.ToolCalls],
                  !.messages = Append(@, Msg("assistant", resp.Content, "")),
                  !.usage = resp.Usage,
                  !.toolCallsUsed = n > 0,
                  !.toolExecutions = IF n > 0 THEN mk.slice ELSE NilSlice,
                  !.j = 1,
                  !.finalAnswer = IF n > 0 THEN "" ELSE resp.Content,
                  !.generation = IF n > 0 THEN @
                                 ELSE [usage |-> resp.Usage, updated |-> TRUE],
                  !.pc = IF n > 0 THEN "tools" ELSE "addturn"]
    /\ UNCHANGED <<b, maps, snaps, caller>> /\ ChatFrame

\* The first CreateChatCompletion returns an error: the generation is marked
\* failed and the round is abandoned (continue).
ChatCompletionFails ==
    /\ phase = "chat" /\ loop.pc = "completion"
    /\ loop' = NextRound(loop)
    /\ UNCHANGED bvars /\ ChatFrame

\* Mutant: the result text is also stored as the error of the record.
ToolExecutionRecord_ResultAsError(tc, argsMap, result, t0, t1) ==
    ToolCallRec(tc.Name, tc.ID, argsMap, result, t0, t1, TRUE, result)

\* The ToolCallExecution literal appended for one tool call: Success is true
\* and Error is not set.
ToolExecutionRecord(tc, argsMap, result, t0, t1) ==
    ToolCallRec(tc.Name, tc.ID, argsMap, result, t0, t1, TRUE, "")

\* One iteration of the loop over assistantMsg.ToolCalls.
ChatExecuteTool ==
    /\ phase = "chat" /\ loop.pc = "tools"
    /\ loop.j <= Len(loop.assistantMsg.ToolCalls)
    /\ \E t0 \in Now(loop) : \E t1 \in {u \in Times : u = t0 \/ u = t0 + 1} :
         LET tc == loop.assistantMsg.ToolCalls[loop.j]
             result == executeTool(tc)
             argsMap == AllocMap(maps, tc.Args)
             exec == ToolExecutionRecord(tc, argsMap.ref, result, t0, t1)
             r == GoAppend(arrays, loop.toolExecutions, exec)
         IN /\ arrays' = r.arrays
            /\ maps' = argsMap.maps
            /\ loop' = [loop EXCEPT
                  !.toolExecutions = r.slice,
                  !.messages = Append(@, Msg("tool", result, tc.ID)),
                  !.now = t1,
                  !.j = @ + 1,
                  !.pc = IF loop.j = Len(loop.assistantMsg.ToolCalls) THEN "second"
                         ELSE "tools"]
    /\ UNCHANGED <<b, snaps, caller>> /\ ChatFrame

\* The second CreateChatCompletion returns the final message.
ChatSecondCompletion ==
    /\ phase = "chat" /\ loop.pc = "second"
    /\ \E resp2 \in ChatFinalResponses :
         loop' = [loop EXCEPT
                    !.messages = Append(@, Msg("assistant", resp2.Content, "")),
                    !.finalAnswer = resp2.Content,
                    !.generation =
                        [usage |-> [PromptTokens |->
                                        loop.usage.PromptTokens + resp2.Usage.PromptTokens,
                                    CompletionTokens |->
                                        loop.usage.CompletionTokens + resp2.Usage.CompletionTokens,
                                    TotalTokens |->
                                        loop.usage.TotalTokens + resp2.Usage.TotalTokens],
                         updated |-> TRUE],
                    !.pc = "addturn"]
    /\ UNCHANGED bvars /\ ChatFrame

\* The second CreateChatCompletion returns an error (continue).
ChatSecondCompletionFails ==
    /\ phase = "chat" /\ loop.pc = "second"
    /\ loop' = NextRound(loop)
    /\ UNCHANGED bvars /\ ChatFrame

\* contextBuilder.AddTurn(i+1, qa.question, finalAnswer, toolExecutions, tokenUsage, trace.ID())
ChatAddTurn ==
    /\ phase = "chat" /\ loop.pc = "addturn"
    /\ \E ts \in Now(loop) :
         LET r == AddTurn(b, arrays, loop.i + 1, Questions[loop.i + 1].question,
                          loop.finalAnswer, loop.toolExecutions, loop.usage,
                          loop.traceID, ts)
         IN /\ b' = r.b /\ arrays' = r.arrays
            /\ loop' = [loop EXCEPT !.pc = "build", !.now = ts]
    /\ UNCHANGED <<maps, snaps, caller>> /\ ChatFrame

\* replayCtx := contextBuilder.Build(trace.ID()), stored in the trace's output;
\* the iteration ends.
ChatBuild ==
    /\ phase = "chat" /\ loop.pc = "build"
    /\ \E ts \in Now(loop) :
         LET r == Build(b, arrays, loop.traceID, ts)
         IN /\ snaps' = Append(snaps, r.ctx) /\ arrays' = r.arrays
            /\ loop' = [NextRound([loop EXCEPT !.now = ts]) EXCEPT
                          !.stored = Append(@, [traceID |-> loop.traceID,
                                                round |-> loop.i + 1,
                                                snap |-> Len(snaps) + 1])]
    /\ UNCHANGED <<b, maps, caller>> /\ ChatFrame

\* After the loop: the summary trace, finalReplayCtx := Build(summaryTrace.ID()).
ChatSummary ==
    /\ phase = "chat" /\ loop.pc = "summary"
    /\ \E ts \in Now(loop) :
         LET id == TraceIDs[loop.traces + 1]
             r == Build(b, arrays, id, ts)
         IN /\ snaps' = Append(snaps, r.ctx) /\ arrays' = r.arrays
            /\ loop' = [loop EXCEPT !.pc = "done", !.now = ts, !.traces = @ + 1,
                                    !.traceID = id]
    /\ UNCHANGED <<b, maps, caller>> /\ ChatFrame

ChatNext ==
    \/ ChatCreateTrace \/ ChatCreateTraceFails
    \/ ChatCompletion \/ ChatCompletionFails
    \/ ChatExecuteTool
    \/ ChatSecondCompletion \/ ChatSecondCompletionFails
    \/ ChatAddTurn \/ ChatBuild \/ ChatSummary

SpecChat == ChatInit /\ [][ChatNext]_vars

\* finalReplayCtx, once the loop has ended.
FinalReplayCtx == LoadContext(arrays, maps, snaps[Len(snaps)])

\* C2: at the end of a run the projection of the final context equals the live
\* messages list, message for message in role, content and tool_call_id.
C2_ProjectionEqualsLive ==
    (phase = "chat" /\ loop.pc = "done") =>
        SameMessages(ToOpenAIMessages(FinalReplayCtx), loop.messages)

\* C4: every context returned by Build has history[i].round == i+1.
C4_RoundsMatchIndex ==
    phase = "chat" =>
        \A s \in 1..Len(snaps) :
            LET h == LoadContext(arrays, maps, snaps[s]).ConversationHistory.elems
            IN \A k \in 1..Len(h) : h[k].Round = k

\* A recorded execution of a tool that failed: the tool is not one executeTool
\* knows, or the calculator was asked to divide by zero.
ToolFailed(tc) ==
    \/ tc.ToolName \notin {"get_weather", "calculator"}
    \/ /\ tc.ToolName = "calculator"
       /\ ArgString(tc.Arguments, "operation") = "divide"
       /\ ArgFloat(tc.Arguments, "b") = 0

\* C20: a tool execution that fails is recorded in the turn's tool-call list
\* with success false and an error text.
C20_FailureRecorded ==
    phase = "chat" =>
        \A k \in 1..Len(BuilderView.conversationCtx.elems) :
            LET tcs == BuilderView.conversationCtx.elems[k].ToolCalls.elems
            IN \A m \in 1..Len(tcs) :
                 ToolFailed(tcs[m]) => (~tcs[m].Success /\ tcs[m].Error # "")

\* The history of the builder and its last turn.
ChatHistory == BuilderView.conversationCtx.elems
LastTurn(h) == h[Len(h)]

\* C24: a round in which the assistant requested tool calls ends with its turn
\* added to the builder, and the turn holds one record per requested call, in
\* the order of the calls and with their IDs.
C24_ToolRoundRecorded ==
    [][(phase = "chat" /\ loop.toolCallsUsed /\ loop'.i = loop.i + 1) =>
          LET h == BuilderView'.conversationCtx.elems
              calls == loop.assistantMsg.ToolCalls
          IN /\ h # <<>>
             /\ LastTurn(h).Round = loop.i + 1
             /\ Len(LastTurn(h).ToolCalls.elems) = Len(calls)
             /\ \A k \in 1..Len(calls) :
                  LastTurn(h).ToolCalls.elems[k].ToolID = calls[k].ID]_vars

\* C25: the token usage of the turn just added equals the usage recorded on
\* the round's generation.
C25_TurnUsageIsGenerationUsage ==
    (phase = "chat" /\ loop.pc = "build") =>
        /\ loop.generation.updated
        /\ LastTurn(ChatHistory).TokenUsage = loop.generation.usage

\* The executions recorded so far: those of the turns of the builder and those
\* of the round in progress.
RecordedExecutions ==
    UNION {{ChatHistory[k].ToolCalls.elems[m] :
               m \in 1..Len(ChatHistory[k].ToolCalls.elems)} : k \in 1..Len(ChatHistory)}
    \cup LET cur == LoadSlice(LAMBDA tc : LoadToolCall(maps, tc), arrays,
                            loop.toolExecutions).elems
         IN {cur[m] : m \in 1..Len(cur)}

\* C27: every recorded execution with Success true has an empty Error.
C27_SuccessHasNoError ==
    phase = "chat" => \A e \in RecordedExecutions : e.Success => e.Error = ""

\* The round in progress has recorded the division by zero with Success true.
C27_Witness ==
    /\ phase = "chat" /\ loop.pc = "tools" /\ loop.j = 2
    /\ \E e \in RecordedExecutions :
         e.Success /\ e.ToolID = "call-d" /\ e.Result = "Error: division by zero"

\* C29: the snapshot stored on the trace of each completed round has the ID of
\* that trace, its last turn has that ID as TurnID and the round number of the
\* loop as Round, and its history is as long as the number of rounds completed
\* up to then.
C29_StoredSnapshot ==
    phase = "chat" =>
        \A k \in 1..Len(loop.stored) :
            LET st == loop.stored[k]
                ctx == LoadContext(arrays, maps, snaps[st.snap])
                h == ctx.ConversationHistory.elems
            IN /\ ctx.TraceID = st.traceID
               /\ Len(h) = k
               /\ LastTurn(h).TurnID = st.traceID
               /\ LastTurn(h).Round = st.round

\* The first round was skipped and the two others completed: the snapshot of
\* round 3 holds two turns.
C29_Witness ==
    /\ phase = "chat" /\ loop.pc = "summary"
    /\ Len(loop.stored) = 2
    /\ loop.stored[2].round = 3 /\ loop.stored[2].traceID = "trace-2"
    /\ snaps[2].ConversationHistory.len = 2

\* ------------------------------------------------------------------------
\* The fetch program: first-generation scan and normalization
\* ------------------------------------------------------------------------
\* Values json.Unmarshal puts into an interface{}: nil, a string or number, a
\* map[string]any, a []any.
VNil == [kind |-> "nil"]
VStr(t) == [kind |-> "string", v |-> t]
VNum(t) == [kind |-> "number", v |-> t]
VObj(f) == [kind |-> "object", fields |-> f]
VArr(e) == [kind |-> "array", elems |-> e]

RoleContent(role, content) == ("role" :> VStr(role)) @@ ("content" :> VStr(content))

RECURSIVE AppendObjects(_, _)
\* for _, item := range array { if msgMap, ok := item.(map[string]any); ok { append } }
AppendObjects(msgs, items) ==
    IF items = <<>> THEN msgs
    ELSE AppendObjects(IF Head(items).kind = "object" THEN Append(msgs, Head(items).fields)
                       ELSE msgs,
                       Tail(items))

\* Mutant: non-object elements of an input array are wrapped instead of dropped.
AppendInput_WrapElements(msgs, input) ==
    IF input.kind = "nil" THEN msgs
    ELSE IF input.kind = "array"
         THEN msgs \o [k \in 1..Len(input.elems) |->
                         IF input.elems[k].kind = "object" THEN input.elems[k].fields
                         ELSE ("role" :> VStr("user")) @@ ("content" :> input.elems[k])]
    ELSE Append(msgs, ("role" :> VStr("user")) @@ ("content" :> input))

\* The input block: nil adds nothing, an array adds its objects, anything else
\* is wrapped as the content of a user message.
AppendInput(msgs, input) ==
    IF input.kind = "nil" THEN msgs
    ELSE IF input.kind = "array" THEN AppendObjects(msgs, input.elems)
    ELSE Append(msgs, ("role" :> VStr("user")) @@ ("content" :> input))

\* Mutant: a scalar output is given the role of an input.
AppendOutput_UserRole(msgs, output) ==
    IF output.kind = "nil" THEN msgs
    ELSE IF output.kind = "array" THEN AppendObjects(msgs, output.elems)
    ELSE IF output.kind = "object" THEN Append(msgs, output.fields)
    ELSE Append(msgs, ("role" :> VStr("user")) @@ ("content" :> output))

\* The output block: nil adds nothing, an array adds its objects, an object is
\* added as it is, anything else is wrapped as the content of an assistant message.
AppendOutput(msgs, output) ==
    IF output.kind = "nil" THEN msgs
    ELSE IF output.kind = "array" THEN AppendObjects(msgs, output.elems)
    ELSE IF output.kind = "object" THEN Append(msgs, output.fields)
    ELSE Append(msgs, ("role" :> VStr("assistant")) @@ ("content" :> output))

\* Mutant: the type is matched without regard to case.
IsGeneration_AnyCase(obs) == obs.Type \in {"GENERATION", "generation"}

\* trace.Observations[i].Type == "GENERATION"
IsGeneration(obs) == obs.Type = "GENERATION"

\* Inputs and outputs of the fetched observations.
ObjUser == VObj(RoleContent("user", "hi"))
ObjTool == VObj(RoleContent("tool", "x"))
ObjNoRole == VObj("content" :> VStr("x"))
FetchValues ==
    {VNil, VStr("Q"), VNum("3"), ObjUser, ObjNoRole,
     VArr(<<>>), VArr(<<VStr("a"), ObjUser, VNum("3"), ObjTool>>),
     VArr(<<ObjNoRole>>), VArr(<<VStr("a"), VNil>>)}

Observation(type, input, output) == [Type |-> type, Input |-> input, Output |-> output]

FetchObservations ==
    {Observation("SPAN", VStr("span-in"), VStr("span-out")),
     Observation("generation", VStr("lower-in"), VStr("lower-out"))}
    \cup {Observation("GENERATION", v, VStr("A")) : v \in FetchValues}
    \cup {Observation("GENERATION", VStr("Q"), v) : v \in FetchValues}

FetchTraces ==
    {[Observations |-> obs] : obs \in UNION {[1..n -> FetchObservations] : n \in 0..MaxObs}}

\* What the backend answers to GetTrace: a trace, or an error.
FetchAnswers == FetchTraces \cup {[error |-> "fetch failed"]}

FetchInit ==
    /\ phase = "fetch"
    /\ \E answer \in FetchAnswers :
         fetch = [pc |-> "start", backend |-> answer, trace |-> Nothing, i |-> 0,
                  firstGeneration |-> 0, contextMessages |-> <<>>, inputCount |-> 0,
                  log |-> <<>>, template |-> Nothing, requestBody |-> Nothing,
                  posts |-> <<>>]
    /\ IdleBuilder /\ IdleCodec /\ IdleLoop

FetchFrame == UNCHANGED <<phase, bvars, cvars, loop>>

\* trace, err := client.GetTrace(...), err == nil
FetchGetTrace ==
    /\ phase = "fetch" /\ fetch.pc = "start"
    /\ "Observations" \in DOMAIN fetch.backend
    /\ fetch' = [fetch EXCEPT !.trace = fetch.backend, !.pc = "scan"]
    /\ FetchFrame

\* GetTrace returns an error: it is logged, trace is nil and main goes on.
FetchGetTraceFails ==
    /\ phase = "fetch" /\ fetch.pc = "start"
    /\ "error" \in DOMAIN fetch.backend
    /\ fetch' = [fetch EXCEPT !.log = Append(@, "Failed to fetch trace"), !.pc = "scan"]
    /\ FetchFrame

\* len(trace.Observations) on the nil trace: nil pointer dereference.
FetchScanNilTrace ==
    /\ phase = "fetch" /\ fetch.pc = "scan"
    /\ fetch.trace = Nothing
    /\ fetch' = [fetch EXCEPT !.pc = "panic"]
    /\ FetchFrame

\* One iteration of the scan that does not find a generation.
FetchScanSkip ==
    /\ phase = "fetch" /\ fetch.pc = "scan"
    /\ fetch.trace # Nothing
    /\ fetch.i < Len(fetch.trace.Observations)
    /\ ~IsGeneration(fetch.trace.Observations[fetch.i + 1])
    /\ fetch' = [fetch EXCEPT !.i = @ + 1]
    /\ FetchFrame

\* firstGeneration = &trace.Observations[i]; break
FetchScanFound ==
    /\ phase = "fetch" /\ fetch.pc = "scan"
    /\ fetch.trace # Nothing
    /\ fetch.i < Len(fetch.trace.Observations)
    /\ IsGeneration(fetch.trace.Observations[fetch.i + 1])
    /\ fetch' = [fetch EXCEPT !.firstGeneration = fetch.i + 1, !.pc = "input"]
    /\ FetchFrame

\* Mutant: the missing generation is only logged and main goes on with an
\* empty message list.
FetchNoGeneration_Continue ==
    /\ phase = "fetch" /\ fetch.pc = "scan"
    /\ fetch.trace # Nothing
    /\ fetch.i = Len(fetch.trace.Observations)
    /\ fetch' = [fetch EXCEPT !.log = Append(@, "No generation found in trace"),
                              !.pc = "assembled"]
    /\ FetchFrame

\* The scan ends with firstGeneration == nil: log.Fatalf.
FetchNoGeneration ==
    /\ phase = "fetch" /\ fetch.pc = "scan"
    /\ fetch.trace # Nothing
    /\ fetch.i = Len(fetch.trace.Observations)
    /\ fetch' = [fetch EXCEPT !.log = Append(@, "No generation found in trace"),
                              !.pc = "fatal"]
    /\ FetchFrame

FirstGeneration == fetch.trace.Observations[fetch.firstGeneration]

\* Mutant: the elements of an input array are asserted to be objects without
\* the ok form, so that another element panics.
FetchInput_AssertObjects ==
    /\ phase = "fetch" /\ fetch.pc = "input"
    /\ LET in == FirstGeneration.Input
           msgs == AppendInput(fetch.contextMessages, in)
       IN IF in.kind = "array" /\ \E k \in 1..Len(in.elems) : in.elems[k].kind # "object"
          THEN fetch' = [fetch EXCEPT !.pc = "panic"]
          ELSE fetch' = [fetch EXCEPT !.contextMessages = msgs, !.inputCount = Len(msgs),
                                      !.pc = "output"]
    /\ FetchFrame

\* contextMessages gets the messages of firstGeneration.Input.
FetchInput ==
    /\ phase = "fetch" /\ fetch.pc = "input"
    /\ LET msgs == AppendInput(fetch.contextMessages, FirstGeneration.Input)
       IN fetch' = [fetch EXCEPT !.contextMessages = msgs, !.inputCount = Len(msgs),
                                 !.pc = "output"]
    /\ FetchFrame

\* Mutant: the messages of the output are put before those of the input.
FetchOutput_Prepend ==
    /\ phase = "fetch" /\ fetch.pc = "output"
    /\ fetch' = [fetch EXCEPT
                   !.contextMessages = AppendOutput(<<>>, FirstGeneration.Output) \o @,
                   !.pc = "assembled"]
    /\ FetchFrame

\* contextMessages gets the messages of firstGeneration.Output.
FetchOutput ==
    /\ phase = "fetch" /\ fetch.pc = "output"
    /\ fetch' = [fetch EXCEPT
                   !.contextMessages = AppendOutput(@, FirstGeneration.Output),
                   !.pc = "assembled"]
    /\ FetchFrame

\* What examples/replay/request_template.json holds: the file cannot be read,
\* its text is not a JSON object, it is the text null, or it is an object.
TemplateWithHistory == ("history" :> VArr(<<ObjTool>>)) @@ ("model" :> VStr("m"))
TemplateWithoutHistory == ("model" :> VStr("m")) @@ ("stream" :> VNum("0"))
FetchTemplates ==
    {[error |-> "read"], [error |-> "parse"], [json |-> VNil],
     [json |-> VObj(TemplateWithHistory)], [json |-> VObj(TemplateWithoutHistory)]}

\* os.ReadFile fails: log.Fatalf. (The print loop before it changes nothing.)
FetchReadTemplateFails ==
    /\ phase = "fetch" /\ fetch.pc = "assembled"
    /\ [error |-> "read"] \in FetchTemplates
    /\ fetch' = [fetch EXCEPT !.log = Append(@, "Failed to read request template"),
                              !.pc = "fatal"]
    /\ FetchFrame

\* json.Unmarshal(templateData, &requestBody) fails: log.Fatalf.
FetchParseTemplateFails ==
    /\ phase = "fetch" /\ fetch.pc = "assembled"
    /\ [error |-> "parse"] \in FetchTemplates
    /\ fetch' = [fetch EXCEPT
                   !.log = Append(@, "Failed to parse request body template"),
                   !.pc = "fatal"]
    /\ FetchFrame

\* The template is read and parsed into requestBody; the text null leaves
\* the map nil.  template keeps what the file held.
FetchReadTemplate ==
    /\ phase = "fetch" /\ fetch.pc = "assembled"
    /\ \E t \in FetchTemplates :
         /\ "json" \in DOMAIN t
         /\ fetch' = [fetch EXCEPT
                        !.template = t,
                        !.requestBody =
                            IF t.json = VNil THEN [isnil |-> TRUE, kv |-> NoKeys]
                            ELSE [isnil |-> FALSE, kv |-> t.json.fields],
                        !.pc = "replace"]
    /\ FetchFrame

\* []map[string]any as the JSON value json.Marshal writes for it.
MessagesValue(msgs) == VArr([k \in 1..Len(msgs) |-> VObj(msgs[k])])

\* Mutant: the request body is made anew with the history as its only key.
SetHistory_OnlyHistory(kv, msgs) == "history" :> MessagesValue(msgs)

\* requestBody["history"] = contextMessages
SetHistory(kv, msgs) ==
    [k \in DOMAIN kv \cup {"history"} |->
        IF k = "history" THEN MessagesValue(msgs) ELSE kv[k]]

\* The assignment into a nil map panics.
FetchReplaceHistoryNilMap ==
    /\ phase = "fetch" /\ fetch.pc = "replace"
    /\ fetch.requestBody.isnil
    /\ fetch' = [fetch EXCEPT !.pc = "panic"]
    /\ FetchFrame

\* requestBody["history"] = contextMessages; json.Marshal(requestBody)
FetchReplaceHistory ==
    /\ phase = "fetch" /\ fetch.pc = "replace"
    /\ ~fetch.requestBody.isnil
    /\ fetch' = [fetch EXCEPT
                   !.requestBody.kv = SetHistory(@, fetch.contextMessages),
                   !.pc = "post"]
    /\ FetchFrame

\* http.Post(replayURL, ...) and io.ReadAll: the body is handed to the
\* transport; an error of either call is fatal.
FetchPost ==
    /\ phase = "fetch" /\ fetch.pc = "post"
    /\ \E outcome \in {"ok", "post error", "read error"} :
         fetch' = [fetch EXCEPT
                     !.posts = Append(@, fetch.requestBody.kv),
                     !.log = IF outcome = "post error"
                             THEN Append(@, "Failed to send request")
                             ELSE IF outcome = "read error"
                             THEN Append(@, "Failed to read response")
                             ELSE @,
                     !.pc = IF outcome = "ok" THEN "done" ELSE "fatal"]
    /\ FetchFrame

FetchNext ==
    \/ FetchGetTrace \/ FetchGetTraceFails
    \/ FetchScanNilTrace \/ FetchScanSkip \/ FetchScanFound \/ FetchNoGeneration
    \/ FetchInput \/ FetchOutput
    \/ FetchReadTemplateFails \/ FetchParseTemplateFails \/ FetchReadTemplate
    \/ FetchReplaceHistoryNilMap \/ FetchReplaceHistory \/ FetchPost

SpecFetch == FetchInit /\ [][FetchNext]_vars

Assembled == phase = "fetch" /\ fetch.pc = "assembled"
InputMessages == SubSeq(fetch.contextMessages, 1, fetch.inputCount)
OutputMessages ==
    SubSeq(fetch.contextMessages, fetch.inputCount + 1, Len(fetch.contextMessages))

IsScalar(v) == v.kind \in {"string", "number"}

\* C7: a value that is a single object becomes exactly one message, the object
\* as it is, for the input as for the output.
C7_ObjectAsIs ==
    Assembled =>
        /\ FirstGeneration.Input.kind = "object" =>
              InputMessages = <<FirstGeneration.Input.fields>>
        /\ FirstGeneration.Output.kind = "object" =>
              OutputMessages = <<FirstGeneration.Output.fields>>

\* The object elements of a sequence, in order.
ObjectFields(elems) ==
    LET objs == SelectSeq(elems, LAMBDA e : e.kind = "object")
    IN [k \in 1..Len(objs) |-> objs[k].fields]

\* C8: a value that is a sequence becomes its object elements, unchanged and in
\* order; the other elements are dropped.
C8_ArrayKeepsObjects ==
    Assembled =>
        /\ FirstGeneration.Input.kind = "array" =>
              InputMessages = ObjectFields(FirstGeneration.Input.elems)
        /\ FirstGeneration.Output.kind = "array" =>
              OutputMessages = ObjectFields(FirstGeneration.Output.elems)

\* An input of four elements of which the second and the fourth are objects.
C8_Witness ==
    /\ Assembled
    /\ FirstGeneration.Input = VArr(<<VStr("a"), ObjUser, VNum("3"), ObjTool>>)
    /\ InputMessages = <<RoleContent("user", "hi"), RoleContent("tool", "x")>>

\* C9: a scalar becomes one message with the scalar as content and the role
\* "user" (input) or "assistant" (output); nil becomes no message.
C9_ScalarSynthesized ==
    Assembled =>
        LET in == FirstGeneration.Input
            outv == FirstGeneration.Output
        IN /\ IsScalar(in) =>
                InputMessages = <<("role" :> VStr("user")) @@ ("content" :> in)>>
           /\ IsScalar(outv) =>
                OutputMessages = <<("role" :> VStr("assistant")) @@ ("content" :> outv)>>
           /\ in = VNil => InputMessages = <<>>
           /\ outv = VNil => OutputMessages = <<>>

\* A number as input and a string as output.
C9_Witness ==
    /\ Assembled
    /\ FirstGeneration.Input = VNum("3") /\ FirstGeneration.Output = VStr("A")
    /\ Len(fetch.contextMessages) = 2

\* The smallest index of a GENERATION observation (0: none).
MinGeneration(obs) ==
    IF \E k \in 1..Len(obs) : obs[k].Type = "GENERATION"
    THEN CHOOSE k \in 1..Len(obs) :
            /\ obs[k].Type = "GENERATION"
            /\ \A m \in 1..(k - 1) : obs[m].Type # "GENERATION"
    ELSE 0

\* C10: the observation used is the first whose type is exactly GENERATION; the
\* messages are those of that observation alone; for [SPAN, GENERATION("Q", "A")]
\* they are a user message "Q" and an assistant message "A".
C10_FirstGenerationSelected ==
    (phase = "fetch" /\ fetch.pc \in {"input", "output", "assembled"}) =>
        LET obs == fetch.trace.Observations
            g == MinGeneration(obs)
        IN /\ fetch.firstGeneration = g /\ g > 0
           /\ fetch.pc = "assembled" =>
                /\ fetch.contextMessages = AppendOutput(AppendInput(<<>>, obs[g].Input),
                                                        obs[g].Output)
                /\ (Len(obs) = 2 /\ obs[1].Type = "SPAN"
                    /\ obs[2] = Observation("GENERATION", VStr("Q"), VStr("A")))
                   => fetch.contextMessages =
                        <<RoleContent("user", "Q"), RoleContent("assistant", "A")>>

\* A generation after an observation of another type and before a further
\* generation whose output differs.
C10_Witness ==
    /\ Assembled
    /\ fetch.trace.Observations =
         <<Observation("generation", VStr("lower-in"), VStr("lower-out")),
           Observation("GENERATION", VStr("Q"), VStr("A")),
           Observation("GENERATION", VStr("Q"), ObjUser)>>
    /\ fetch.contextMessages = <<RoleContent("user", "Q"), RoleContent("assistant", "A")>>

\* The trace was fetched and the scan of its observations is over.
ScanOver == phase = "fetch" /\ fetch.trace # Nothing /\ fetch.pc \notin {"start", "scan"}

\* C11: when the fetched trace has no observation of type GENERATION, the scan
\* ends in the fatal exit that reports "No generation found in trace"; no
\* message list is assembled and no replay request is sent for that trace.
C11_NoGenerationIsFatal ==
    (phase = "fetch" /\ fetch.trace # Nothing
     /\ MinGeneration(fetch.trace.Observations) = 0) =>
        /\ fetch.contextMessages = <<>> /\ fetch.requestBody = Nothing
        /\ fetch.posts = <<>>
        /\ fetch.pc \in {"scan", "fatal"}
        /\ fetch.pc = "fatal" => fetch.log = <<"No generation found in trace">>

\* A trace of two observations, neither of type GENERATION, after the scan.
C11_Witness ==
    /\ ScanOver /\ fetch.pc = "fatal"
    /\ Len(fetch.trace.Observations) = 2
    /\ fetch.trace.Observations[2].Type = "generation"
    /\ fetch.log = <<"No generation found in trace">>

\* A sequence of messages, each an object (a map from keys to values).
IsMessages(msgs) ==
    \A k \in 1..Len(msgs) : DOMAIN msgs[k] \subseteq {"role", "content"}

\* C12: normalization never fails: with the input or the output block to run,
\* for every shape of the value, the block can run, and the step it takes ends
\* neither in an error nor in an abort: it reports nothing, goes on to the
\* next block and leaves a message list, possibly empty.
C12_NormalizationTotal ==
    /\ [](phase = "fetch" /\ fetch.pc = "input" => ENABLED FetchInput)
    /\ [](phase = "fetch" /\ fetch.pc = "output" => ENABLED FetchOutput)
    /\ [][(phase = "fetch" /\ fetch.pc \in {"input", "output"}) =>
            /\ fetch'.pc = (IF fetch.pc = "input" THEN "output" ELSE "assembled")
            /\ fetch'.log = fetch.log
            /\ IsMessages(fetch'.contextMessages)]_vars

\* An input sequence without objects and a scalar output, both normalized;
\* the input added nothing.
C12_Witness ==
    /\ Assembled
    /\ FirstGeneration.Input = VArr(<<VStr("a"), VNil>>)
    /\ fetch.inputCount = 0
    /\ fetch.contextMessages = <<RoleContent("assistant", "A")>>

\* C13: the message list of a generation is the messages of its input followed
\* by the messages of its output, each part in its own order.
C13_InputBeforeOutput ==
    (phase = "fetch" /\ fetch.pc \in {"assembled", "replace", "post", "done"}) =>
        fetch.contextMessages =
            AppendInput(<<>>, FirstGeneration.Input)
            \o AppendOutput(<<>>, FirstGeneration.Output)

\* Two messages from the input, then two from the output.
C13_Witness ==
    /\ Assembled
    /\ FirstGeneration.Input = VStr("Q")
    /\ FirstGeneration.Output = VArr(<<VStr("a"), ObjUser, VNum("3"), ObjTool>>)
    /\ fetch.contextMessages =
         <<RoleContent("user", "Q"), RoleContent("user", "hi"), RoleContent("tool", "x")>>

\* C21: the body of the replay request is the parsed template with the key
\* history set to the assembled messages: every other key of the template is
\* there with its value, and there is no further key.
C21_OnlyHistoryReplaced ==
    (phase = "fetch" /\ fetch.posts # <<>>) =>
        LET body == fetch.posts[Len(fetch.posts)]
            tmpl == fetch.template.json.fields
        IN /\ DOMAIN body = DOMAIN tmpl \cup {"history"}
           /\ \A k \in DOMAIN tmpl \ {"history"} : body[k] = tmpl[k]
           /\ body["history"] = MessagesValue(fetch.contextMessages)

\* A request made from a template that has a history of its own, with two
\* assembled messages.
C21_Witness ==
    /\ phase = "fetch" /\ fetch.pc = "done"
    /\ fetch.template = [json |-> VObj(TemplateWithHistory)]
    /\ Len(fetch.contextMessages) = 2
    /\ fetch.posts = <<("history" :> MessagesValue(fetch.contextMessages))
                        @@ ("model" :> VStr("m"))>>

\* C30: when GetTrace fails the error is reported, the program does not crash,
\* and nothing is done on the missing trace: no scan result, no messages, no
\* replay request.
C30_FetchFailureHandled ==
    (phase = "fetch" /\ "error" \in DOMAIN fetch.backend /\ fetch.pc # "start") =>
        /\ fetch.log = <<"Failed to fetch trace">>
        /\ fetch.pc # "panic"
        /\ fetch.i = 0 /\ fetch.firstGeneration = 0
        /\ fetch.contextMessages = <<>>
        /\ fetch.posts = <<>>

\* ------------------------------------------------------------------------
\* Codec: ToOpenAIMessages and the JSON round trip applied to a context
\* ------------------------------------------------------------------------
\* Input contexts of the codec.
CodecCallA == ToolCallRec("noop", "t1", LoadedMap("n" :> AnyInt(1)), "ok", 0, 1, TRUE, "")
CodecCallB == ToolCallRec("calculator", "t2", LoadedNilMap, "Error: division by zero",
                          0, 0, FALSE, "division by zero")
CodecCallLists == {LoadedNil, Loaded(<<>>), Loaded(<<CodecCallA>>),
                   Loaded(<<CodecCallB, CodecCallA>>)}
CodecTexts == {<<"Hi", "Hello">>, <<"Bye", "">>}
CodecTurns ==
    {TurnRec(r, 0, "tr1", tx[1], tx[2], tcs.elems # <<>>, tcs, Usage(1, 2)) :
        r \in 1..MaxRound, tx \in CodecTexts, tcs \in CodecCallLists}
CodecHistories ==
    {LoadedNil} \cup {Loaded(h) : h \in UNION {[1..n -> CodecTurns] : n \in 0..MaxHistory}}
CodecTools ==
    {LoadedNil,
     Loaded(<<[Type |-> "function", Function |-> LoadedMap("name" :> AnyStr("get_weather"))]>>)}
CodecPrompts ==
    {[Content |-> "", Role |-> "", Metadata |-> LoadedNilMap],
     [Content |-> "sys", Role |-> "system", Metadata |-> LoadedMap("version" :> AnyStr("1.0"))]}

CodecContext(sp, tools, hist) ==
    [SessionID |-> "s1", UserID |-> "u1", TraceID |-> "tr1",
     Timestamp |-> [wall |-> 0, mono |-> TRUE],
     ModelConfig |-> [Model |-> "m", BaseURL |-> "url", Temperature |-> DefaultTemperature,
                      MaxTokens |-> DefaultMaxTokens, TopP |-> 0, FrequencyPenalty |-> 0, PresencePenalty |-> 0,
                      ExtraParams |-> LoadedNilMap],
     SystemPrompt |-> sp, Tools |-> tools, ConversationHistory |-> hist,
     Metadata |-> [Environment |-> "", Tags |-> Loaded(<<"replay", "chat">>),
                   CustomFields |-> LoadedNilMap, ResponseTimeMs |-> 0, TotalCost |-> 0,
                   AdditionalInfo |-> LoadedNilMap]]

CodecContexts ==
    {CodecContext(sp, tools, hist) :
        sp \in CodecPrompts, tools \in CodecTools, hist \in CodecHistories}

CodecInit ==
    /\ phase = "codec:start"
    /\ cx \in CodecContexts
    /\ doc = Nothing /\ cx2 = Nothing /\ out = NoOut
    /\ IdleBuilder /\ IdleLoop /\ IdleFetch

\* messages := ctx.ToOpenAIMessages()
CodecProject ==
    /\ phase = "codec:start"
    /\ out' = [out EXCEPT !.direct = ToOpenAIMessages(cx)]
    /\ phase' = "codec:projected"
    /\ UNCHANGED <<cx, doc, cx2, bvars, loop, fetch>>

\* doc, _ := ctx.ToJSON()
CodecEncode ==
    /\ phase = "codec:projected"
    /\ doc' = ToJSON(cx)
    /\ phase' = "codec:encoded"
    /\ UNCHANGED <<cx, cx2, out, bvars, loop, fetch>>

\* json.Unmarshal(doc, &replayCtx)
CodecDecode ==
    /\ phase = "codec:encoded"
    /\ cx2' = FromJSON(doc)
    /\ phase' = "codec:decoded"
    /\ UNCHANGED <<cx, doc, out, bvars, loop, fetch>>

\* messages := replayCtx.ToOpenAIMessages()
CodecProjectDecoded ==
    /\ phase = "codec:decoded"
    /\ out' = [out EXCEPT !.decoded = ToOpenAIMessages(cx2)]
    /\ phase' = "codec:done"
    /\ UNCHANGED <<cx, doc, cx2, bvars, loop, fetch>>

CodecNext == CodecProject \/ CodecEncode \/ CodecDecode \/ CodecProjectDecoded

SpecCodec == CodecInit /\ [][CodecNext]_vars

\* ------------------------------------------------------------------------
\* Codec properties
\* ------------------------------------------------------------------------
\* C1: projecting the context decoded from the encoded context gives the same
\* messages (role, content, tool_call_id) as projecting the context itself.
C1_RoundTripProjection ==
    phase = "codec:done" => SameMessages(out.decoded, out.direct)

\* A round trip of a context with tool calls, on which decoding did not give
\* back the context itself (the clock reading and the int argument changed).
C1_Witness ==
    /\ phase = "codec:done"
    /\ Len(out.direct) >= 6
    /\ cx2 # cx
    /\ \E i \in 1..Len(out.direct) : out.direct[i].Role = "tool"

RECURSIVE SumLens(_, _)
\* Number of messages the first n turns account for.
SumLens(turns, n) ==
    IF n = 0 THEN 0 ELSE SumLens(turns, n - 1) + 2 + Len(turns[n].ToolCalls.elems)

\* C3: the projection is one system message, then per turn in stored order a
\* user message, an assistant message and one tool message per tool call.
C3_ProjectionShape ==
    phase # "codec:start" =>
        LET turns == cx.ConversationHistory.elems
            msgs == out.direct
        IN /\ Len(msgs) = 1 + SumLens(turns, Len(turns))
           /\ msgs[1] = Msg("system", cx.SystemPrompt.Content, "")
           /\ \A k \in 1..Len(turns) :
                LET base == 1 + SumLens(turns, k - 1)
                    tcs == turns[k].ToolCalls.elems
                IN /\ msgs[base + 1] = Msg("user", turns[k].UserInput.Content, "")
                   /\ msgs[base + 2] = Msg("assistant", turns[k].LLMResponse.Content, "")
                   /\ \A m \in 1..Len(tcs) :
                        msgs[base + 2 + m] = Msg("tool", tcs[m].Result, tcs[m].ToolID)

\* A projection of two turns of which the first has two tool calls.
C3_Witness ==
    /\ phase = "codec:projected"
    /\ Len(cx.ConversationHistory.elems) = 2
    /\ Len(cx.ConversationHistory.elems[1].ToolCalls.elems) = 2
    /\ Len(out.direct) >= 7

\* The first message is a system message even when history is empty.
C3_WitnessEmpty ==
    /\ phase = "codec:projected"
    /\ cx.ConversationHistory.elems = <<>>
    /\ out.direct = <<Msg("system", cx.SystemPrompt.Content, "")>>

\* A context with a system prompt and two turns of which only the second has
\* tool calls, exactly one.
TwoTurnsOneCall(c) ==
    LET turns == c.ConversationHistory.elems
    IN /\ c.SystemPrompt.Content # ""
       /\ Len(turns) = 2
       /\ turns[1].ToolCalls.elems = <<>>
       /\ Len(turns[2].ToolCalls.elems) = 1

\* C17 as stated: for such a context the projection has exactly 7 messages and
\* the context decoded from the encoded context projects to the same sequence.
C17_SevenMessages ==
    (phase = "codec:done" /\ TwoTurnsOneCall(cx)) =>
        /\ Len(out.direct) = 7
        /\ SameMessages(out.decoded, out.direct)

\* C17, amended: for such a context the projection has exactly 6 messages
\* (system, user, assistant, user, assistant, tool) and the context decoded
\* from the encoded context projects to the same sequence.
C17_SixMessages ==
    (phase = "codec:done" /\ TwoTurnsOneCall(cx)) =>
        /\ Len(out.direct) = 6
        /\ [k \in 1..6 |-> out.direct[k].Role] =
              <<"system", "user", "assistant", "user", "assistant", "tool">>
        /\ SameMessages(out.decoded, out.direct)

\* The round trip of the context of the example: "Hi"/"Hello", then a turn
\* with the tool call t1 whose result is "ok".
C17_Witness ==
    /\ phase = "codec:done" /\ TwoTurnsOneCall(cx)
    /\ cx.ConversationHistory.elems[1].UserInput.Content = "Hi"
    /\ out.decoded[6] = Msg("tool", "ok", "t1")

\* ------------------------------------------------------------------------
\* ToOpenAIMessages applied to two contexts
\* ------------------------------------------------------------------------
PairCallLists == {LoadedNil, Loaded(<<CodecCallA>>), Loaded(<<CodecCallB, CodecCallA>>)}
PairTurns ==
    {TurnRec(1, 0, "tr1", tx[1], tx[2], tcs.elems # <<>>, tcs, Usage(1, 2)) :
        tx \in CodecTexts, tcs \in PairCallLists}
PairHistories ==
    {LoadedNil} \cup {Loaded(h) : h \in UNION {[1..n -> PairTurns] : n \in 0..MaxPairTurns}}
PairContexts ==
    {CodecContext(sp, LoadedNil, hist) : sp \in CodecPrompts, hist \in PairHistories}

\* A tool-call record with another name, other arguments, times and outcome.
OtherToolCall(tc) ==
    [tc EXCEPT !.ToolName = "renamed", !.Arguments = LoadedMap("n" :> AnyFloat(2)),
               !.StartTime = 1, !.EndTime = 1, !.DurationMs = 0,
               !.Success = ~@, !.Error = "other"]

\* A turn read at another time, with another ID, round and usage.
OtherTurn(t) ==
    [t EXCEPT !.Round = @ + 1, !.Timestamp = 1, !.TurnID = "tr9",
              !.UserInput.Role = "human",
              !.LLMResponse.Role = "model", !.LLMResponse.ToolCalls = ~@,
              !.LLMResponse.Reasoning = "because", !.LLMResponse.FinishReason = "stop",
              !.TokenUsage = Usage(5, 6),
              !.ToolCalls = IF @.isnil THEN Loaded(<<>>)
                            ELSE Loaded(SeqMap(OtherToolCall, @.elems))]

RECURSIVE Vary(_, _)
\* A context that differs from c in what the variation names.
Vary(c, v) ==
    CASE v = "same" -> c
      [] v = "ids" -> [c EXCEPT !.SessionID = "s9", !.UserID = "u9", !.TraceID = "tr9",
                                !.Timestamp = [wall |-> 1, mono |-> FALSE]]
      [] v = "config" ->
            [c EXCEPT !.ModelConfig.Model = "m9", !.ModelConfig.Temperature = 0,
                      !.Tools = Loaded(<<[Type |-> "function",
                                          Function |-> LoadedMap("name" :> AnyStr("t"))]>>),
                      !.Metadata.Environment = "prod",
                      !.SystemPrompt.Role = "developer",
                      !.SystemPrompt.Metadata = LoadedMap("version" :> AnyStr("2.0"))]
      [] v = "turns" ->
            [c EXCEPT !.ConversationHistory =
                          IF @.isnil THEN Loaded(<<>>) ELSE Loaded(SeqMap(OtherTurn, @.elems))]
      [] v = "all" -> Vary(Vary(Vary(c, "ids"), "config"), "turns")
      [] v = "prompt" -> [c EXCEPT !.SystemPrompt.Content = "other prompt"]
      [] v = "result" ->
            [c EXCEPT !.ConversationHistory =
                IF @.isnil THEN @
                ELSE Loaded([k \in 1..Len(@.elems) |->
                        [@.elems[k] EXCEPT !.ToolCalls =
                            IF @.isnil THEN @
                            ELSE Loaded([m \in 1..Len(@.elems) |->
                                    [@.elems[m] EXCEPT !.Result = "changed"]])]])]

PairVariations == {"same", "ids", "config", "turns", "all", "prompt", "result"}

PairInit ==
    /\ phase = "pair:start"
    /\ cx \in PairContexts
    /\ \E v \in PairVariations : cx2 = Vary(cx, v)
    /\ doc = Nothing /\ out = NoOut
    /\ IdleBuilder /\ IdleLoop /\ IdleFetch

\* messages := ctx.ToOpenAIMessages() on the first context
PairProjectFirst ==
    /\ phase = "pair:start"
    /\ out' = [out EXCEPT !.direct = ToOpenAIMessages(cx)]
    /\ phase' = "pair:first"
    /\ UNCHANGED <<cx, doc, cx2, bvars, loop, fetch>>

\* messages := ctx.ToOpenAIMessages() on the second context
PairProjectSecond ==
    /\ phase = "pair:first"
    /\ out' = [out EXCEPT !.decoded = ToOpenAIMessages(cx2)]
    /\ phase' = "pair:done"
    /\ UNCHANGED <<cx, doc, cx2, bvars, loop, fetch>>

PairNext == PairProjectFirst \/ PairProjectSecond

SpecPair == PairInit /\ [][PairNext]_vars

\* What the claim lets the projection depend on: the content of the system
\* prompt and, per turn, the two contents and each tool call's result and ID.
CanonicalInputs(c) ==
    [prompt |-> c.SystemPrompt.Content,
     turns |-> [k \in 1..Len(c.ConversationHistory.elems) |->
                  LET t == c.ConversationHistory.elems[k]
                  IN [user |-> t.UserInput.Content,
                      assistant |-> t.LLMResponse.Content,
                      calls |-> [m \in 1..Len(t.ToolCalls.elems) |->
                                   [result |-> t.ToolCalls.elems[m].Result,
                                    toolID |-> t.ToolCalls.elems[m].ToolID]]]]]

\* C26: two contexts that agree on the content of the system prompt and, per
\* turn, on the user and assistant content and on each tool call's result and
\* ID project to the same messages, whatever else they differ in; and a
\* projection leaves the context as it was.
C26_DependsOnlyOnContent ==
    [][/\ cx' = cx /\ cx2' = cx2
       /\ (phase' = "pair:done" /\ CanonicalInputs(cx) = CanonicalInputs(cx2)) =>
              out'.direct = out'.decoded]_vars

\* Two contexts with two turns and tool calls that differ in IDs, times,
\* rounds, model, tools and metadata, projected to the same messages.
C26_Witness ==
    /\ phase = "pair:done"
    /\ cx2 = Vary(cx, "all") /\ cx2 # cx
    /\ Len(cx.ConversationHistory.elems) = 2
    /\ Len(cx.ConversationHistory.elems[2].ToolCalls.elems) = 2
    /\ cx2.ConversationHistory.elems[1].Round # cx.ConversationHistory.elems[1].Round
    /\ Len(out.direct) >= 7

====
